---- MODULE Spec2Model ----
(***************************************************************************)
(* A model of the three refresh-and-select components of the promtail      *)
(* fork in GoneLikeAir/loki:                                               *)
(*   - GlobSearcher  (clients/pkg/promtail/targets/file/globsearch.go)     *)
(*   - AccessPicker  (clients/pkg/promtail/client, wemq access picker)     *)
(*   - ACLManager    (clients/pkg/promtail/targets/file, acl manager)      *)
(* Strings are sequences of one-character strings, so that globbing,       *)
(* suffix tests and regular expressions are computed, not assumed.         *)
(***************************************************************************)
EXTENDS Integers, Sequences, FiniteSets, TLC

VARIABLES
    \* ---- GlobSearcher ----
    inProcess,      \* sync.Map: pattern -> taskInfo (exclude/suffix of the marker)
    result,         \* sync.Map: pattern -> searchResult
    spc,            \* position of each Search() caller
    sarg,           \* arguments of each caller's current Search() call
    sfirst,         \* history: whether the call is the first ever for its pattern
    wpc,            \* position of the searchTask goroutine
    wtask,          \* taskInfo the worker received
    wmr,            \* the worker's searchResult under construction
    modTime,        \* filesystem: existing path -> modification time (minutes)
    now,            \* time.Now() in minutes
    fsOps,          \* number of filesystem/clock changes so far
    \* ---- AccessPicker ----
    accessEndpointList, \* the slice header: [data: backing array, len: length]
    idx,            \* atomic.Int32 cursor
    idc,            \* configured locality filter ("" when none)
    mu,             \* the embedded sync.Mutex: "free" or its holder
    ppc,            \* position of each Pick() caller
    pnext,          \* each caller's local next
    crash,          \* the run-time panic that ended the process, or "none"
    rpc,            \* position of the syncIp goroutine
    rn,             \* loop index n over CCEndpoint (line 90)
    rresp,          \* the *http.Response obtained
    rlist,          \* the local endpointList built by syncAccessEpOnce
    syncLog,        \* the last outcome syncAccessEpOnce logged
    picked,         \* history: [on: whether it is kept, eps: endpoints returned]
    \* ---- ACLManager ----
    heap,           \* the ACLConfig values allocated so far, by address
    cfg,            \* m.cfg: the address of the active ACLConfig
    aclFile,        \* the policy file at aclFilepath
    aclLog,         \* what the last syncOnce logged last
    reloads,        \* number of syncOnce calls the ticker has caused so far
    apc,            \* position of each IsAllow/GetFilterOption caller
    aop,            \* the method each caller runs
    alabels,        \* its labels argument
    aseen,          \* the addresses its reads of m.cfg have yielded
    alast,          \* the address its latest read of m.cfg yielded
    aallow,         \* IsAllow's local allow
    aret,           \* the FilterCase GetFilterOption returned
    \* ---- config injection (cmd/promtail main) ----
    configFile,     \* the text of the file at config.configFile
    backup,         \* the text of /tmp/config-backup.yaml, or NoFile
    mtx,            \* the package-level sync.Mutex: "free" or its holder
    ipc,            \* position of each injectConfigFunc caller
    icontent,       \* its content argument
    ierr,           \* the error it returns
    iwarn,          \* the warnings it has logged
    ipre,           \* history: the config file's text when the backup was taken
    cpc,            \* position of the newConfigFunc caller
    cread           \* what the newConfigFunc call in progress returns

globVars == <<inProcess, result, spc, sarg, sfirst, wpc, wtask, wmr, modTime, now, fsOps>>

pickVars == <<accessEndpointList, idx, idc, mu, ppc, pnext, crash, rpc, rn, rresp,
              rlist, syncLog, picked>>

aclVars == <<heap, cfg, aclFile, aclLog, reloads, apc, aop, alabels, aseen,
             alast, aallow, aret>>

injVars == <<configFile, backup, mtx, ipc, icontent, ierr, iwarn, ipre, cpc, cread>>

vars == <<globVars, pickVars, aclVars, injVars>>

\* What the actions of one component leave alone.
notGlob == <<pickVars, aclVars, injVars>>

notPick == <<globVars, aclVars, injVars>>

notACL == <<globVars, pickVars, injVars>>

notInject == <<globVars, pickVars, aclVars>>

----------------------------------------------------------------------------
\* Bounds of the model.

\* Number of goroutines that call Search().
NumCallers == 2

\* Number of filesystem or clock changes (a tick of ten minutes, a removal).
MaxFsOps == 1

\* Number of goroutines that call Pick().
NumPickers == 2

\* Number of directory-service base URLs in CCEndpoint.
NumUrls == 2

\* Number of syncOnce calls the ticker causes.
MaxReloads == 2

\* Largest starting offset of the cursor the model draws (the code draws 0..99).
MaxStart == 1

\* Number of Pick() calls recorded on a fixed endpoint list.
MaxPicks == 6

\* Number of goroutines that call injectConfigFunc.
NumInjectors == 2

----------------------------------------------------------------------------
\* Strings.

Drop(s, n) == SubSeq(s, n + 1, Len(s))

Take(s, n) == SubSeq(s, 1, n)

\* strings.HasSuffix
HasSuffix(s, suffix) ==
    /\ Len(suffix) <= Len(s)
    /\ SubSeq(s, Len(s) - Len(suffix) + 1, Len(s)) = suffix

\* Length of the longest prefix of s that holds no "/".
RECURSIVE SegLen(_)
SegLen(s) ==
    IF s = <<>> \/ Head(s) = "/" THEN 0 ELSE 1 + SegLen(Tail(s))

\* A pattern is malformed when a "[" opens a class that is never closed
\* (path.ErrBadPattern); the model's patterns hold no well-formed class.
RECURSIVE BadPattern(_)
BadPattern(pat) ==
    IF pat = <<>> THEN FALSE
    ELSE IF Head(pat) = "[" THEN \A i \in 2..Len(pat) : pat[i] # "]"
    ELSE BadPattern(Tail(pat))

\* path.Match on a well-formed pattern: "*" is any run of non-"/" characters,
\* "?" one non-"/" character, anything else itself.
RECURSIVE MatchChars(_, _)
MatchChars(pat, name) ==
    IF pat = <<>> THEN name = <<>>
    ELSE IF Head(pat) = "*"
        THEN \E k \in 0..SegLen(name) : MatchChars(Tail(pat), Drop(name, k))
    ELSE IF name = <<>> THEN FALSE
    ELSE IF Head(pat) = "?"
        THEN Head(name) # "/" /\ MatchChars(Tail(pat), Tail(name))
    ELSE Head(pat) = Head(name) /\ MatchChars(Tail(pat), Tail(name))

\* path.Match(pattern, name) -> (matched, err)
PathMatch(pat, name) ==
    IF BadPattern(pat) THEN [matched |-> FALSE, err |-> "ErrBadPattern"]
    ELSE [matched |-> MatchChars(pat, name), err |-> "nil"]

\* doublestar.Match on a well-formed pattern: as path.Match, and a leading
\* "**/" component stands for zero or more whole directories.
RECURSIVE DoubleStarMatch(_, _)
DoubleStarMatch(pat, name) ==
    IF Len(pat) >= 3 /\ Take(pat, 3) = <<"*", "*", "/">>
    THEN \/ DoubleStarMatch(Drop(pat, 3), name)
         \/ /\ SegLen(name) < Len(name)
            /\ DoubleStarMatch(pat, Drop(name, SegLen(name) + 1))
    ELSE MatchChars(pat, name)

----------------------------------------------------------------------------
\* The filesystem and the inputs of Search().

FileX    == <<"a", "/", "x", ".", "l", "o", "g">>
FileSkip == <<"a", "/", "s", "k", "i", "p", ".", "l", "o", "g">>
FileY    == <<"a", "/", "y", ".", "t", "x", "t">>
FileOld  == <<"a", "/", "o", ".", "l", "o", "g">>

\* Every path the model knows, in the lexical order a directory walk yields.
AllFiles == <<FileOld, FileSkip, FileX, FileY>>

PatA      == <<"a", "/", "*">>
PatBroken == <<"a", "/", "[">>

Patterns == {PatA, PatBroken}

\* The files the environment may remove while the worker runs.
Removable == {FileX}

SuffixLog == <<".", "l", "o", "g">>

\* The (ExcludePath, SuffixFilter) pairs callers pass.
ParamChoices ==
    { [ExcludePath |-> <<>>, SuffixFilter |-> <<>>],
      [ExcludePath |-> <<FileSkip>>, SuffixFilter |-> <<SuffixLog>>] }

\* The (ExcludePath, SuffixFilter) a target configured with pattern p passes on
\* each of its calls.
TargetParams(p) ==
    IF p = PatA THEN [ExcludePath |-> <<FileSkip>>, SuffixFilter |-> <<SuffixLog>>]
    ELSE [ExcludePath |-> <<>>, SuffixFilter |-> <<>>]

Callers == 1..NumCallers

NoArg == [Path |-> <<>>, ExcludePath |-> <<>>, SuffixFilter |-> <<>>]

NoRet == [matches |-> <<>>, err |-> "none"]

\* time.Minute*30 (globsearch.go:75)
StalePeriod == 30

\* The clock at start, and the step of one tick, in minutes.
StartNow == 40

TickStep == 10

----------------------------------------------------------------------------
\* The stages of searchTask's pipeline.

\* doublestar.Glob(pattern) against the files that exist.
Glob(pat, mt) ==
    IF BadPattern(pat) THEN [matches |-> <<>>, err |-> "ErrBadPattern"]
    ELSE [matches |-> SelectSeq(AllFiles,
                         LAMBDA f : f \in DOMAIN mt /\ DoubleStarMatch(pat, f)),
          err |-> "nil"]

dropExcludedPath(matches, excludePath) ==
    [matches |-> SelectSeq(matches,
                    LAMBDA m : ~ \E i \in 1..Len(excludePath) :
                        LET r == PathMatch(excludePath[i], m)
                        IN  r.err = "nil" /\ r.matched),
     err |-> "nil"]

\* A suffix stage that keeps nothing when no suffix is configured.
filterSuffix_Strict(matches, suffixFilter) ==
    SelectSeq(matches,
        LAMBDA p : \E i \in 1..Len(suffixFilter) : HasSuffix(p, suffixFilter[i]))

filterSuffix(matches, suffixFilter) ==
    IF Len(suffixFilter) = 0 THEN matches
    ELSE SelectSeq(matches,
            LAMBDA p : \E i \in 1..Len(suffixFilter) : HasSuffix(p, suffixFilter[i]))

\* fInfo.ModTime().Add(period).After(time.Now())
Fresh(mtime, period, t) == mtime + period > t

dropNoUpdatePath(matched, period, mt, t) ==
    SelectSeq(matched, LAMBDA p : p \in DOMAIN mt /\ Fresh(mt[p], period, t))

\* The error searchTask keeps: line 73 assigns mr.err a second time.
PipelineErr(globErr, excludeErr) == excludeErr

----------------------------------------------------------------------------
\* GlobSearcher.Search, one step per access to shared state.

\* Search is called: s.inProcess.Load(path) (line 45).
\* Whether a Search() call for pattern p has ever been made: such a call is
\* still running, or its task is with the worker, or its result is stored.
EverSearched(p) ==
    \/ p \in DOMAIN result
    \/ p \in DOMAIN inProcess
    \/ \E c \in Callers : spc[c] # "idle" /\ sarg[c].Path = p
    \/ wpc # "recv" /\ wtask.Path = p

\* Search(p, q.ExcludePath, q.SuffixFilter) is called by c:
\* s.inProcess.Load(path) (line 45).
SearchCall(c, p, q) ==
    /\ spc[c] = "idle"
    /\ sarg' = [sarg EXCEPT ![c] =
                   [Path |-> p, ExcludePath |-> q.ExcludePath,
                    SuffixFilter |-> q.SuffixFilter]]
    /\ sfirst' = [sfirst EXCEPT ![c] = ~ EverSearched(p)]
    /\ spc' = [spc EXCEPT ![c] = IF p \in DOMAIN inProcess THEN "result"
                                                           ELSE "store"]
    /\ UNCHANGED <<inProcess, result, wpc, wtask, wmr, modTime, now, fsOps>>
    /\ UNCHANGED notGlob

\* Search is called by a target, with the parameters of its configuration.
SearchLoad(c) == \E p \in Patterns : SearchCall(c, p, TargetParams(p))

\* Search is called with any of the parameter pairs, whatever the pattern.
SearchLoadAny(c) == \E p \in Patterns, q \in ParamChoices : SearchCall(c, p, q)

\* s.inProcess.Store(path, taskInfo{...}) (line 47).
SearchStore(c) ==
    /\ spc[c] = "store"
    /\ inProcess' = [p \in DOMAIN inProcess \cup {sarg[c].Path} |->
                        IF p = sarg[c].Path
                        THEN [ExcludePath |-> sarg[c].ExcludePath,
                              SuffixFilter |-> sarg[c].SuffixFilter]
                        ELSE inProcess[p]]
    /\ spc' = [spc EXCEPT ![c] = "send"]
    /\ UNCHANGED <<result, sarg, sfirst, wpc, wtask, wmr, modTime, now, fsOps>>
    /\ UNCHANGED notGlob

\* s.queue <- taskInfo{...} (line 51) meets taskInfo := <-s.queue (line 67):
\* the channel is unbuffered (line 26), so the send completes only when the
\* worker is at its receive.
SearchSend(c) ==
    /\ spc[c] = "send"
    /\ wpc = "recv"
    /\ wtask' = sarg[c]
    /\ wpc' = "glob"
    /\ spc' = [spc EXCEPT ![c] = "result"]
    /\ UNCHANGED <<inProcess, result, sarg, sfirst, wmr, modTime, now, fsOps>>
    /\ UNCHANGED notGlob

\* What Search returns: s.result.Load(path), an empty list and no error when
\* the pattern has no result yet (lines 57-61).
SearchResult(path) ==
    IF path \in DOMAIN result THEN result[path]
    ELSE [matches |-> <<>>, err |-> "nil"]

\* The caller returns SearchResult(sarg[c].Path).
SearchReturn(c) ==
    /\ spc[c] = "result"
    /\ spc' = [spc EXCEPT ![c] = "idle"]
    /\ sarg' = [sarg EXCEPT ![c] = NoArg]
    /\ sfirst' = [sfirst EXCEPT ![c] = FALSE]
    /\ UNCHANGED <<inProcess, result, wpc, wtask, wmr, modTime, now, fsOps>>
    /\ UNCHANGED notGlob

----------------------------------------------------------------------------
\* GlobSearcher.searchTask.

\* The jitter sleep and doublestar.Glob (lines 68-72).
WorkerGlob ==
    /\ wpc = "glob"
    /\ wmr' = Glob(wtask.Path, modTime)
    /\ wpc' = "filter"
    /\ UNCHANGED <<inProcess, result, spc, sarg, sfirst, wtask, modTime, now, fsOps>>
    /\ UNCHANGED notGlob

\* A worker that filters by the parameters kept with the in-flight marker,
\* which are those of the call that marked the pattern last.
WorkerFilter_MarkerParams ==
    /\ wpc = "filter"
    /\ LET q  == IF wtask.Path \in DOMAIN inProcess THEN inProcess[wtask.Path]
                 ELSE [ExcludePath |-> wtask.ExcludePath,
                       SuffixFilter |-> wtask.SuffixFilter]
           ex == dropExcludedPath(wmr.matches, q.ExcludePath)
           sf == filterSuffix(ex.matches, q.SuffixFilter)
       IN  wmr' = [matches |-> dropNoUpdatePath(sf, StalePeriod, modTime, now),
                   err |-> PipelineErr(wmr.err, ex.err)]
    /\ wpc' = "store"
    /\ UNCHANGED <<inProcess, result, spc, sarg, sfirst, wtask, modTime, now, fsOps>>
    /\ UNCHANGED notGlob

\* dropExcludedPath, filterSuffix, dropNoUpdatePath (lines 73-75).
WorkerFilter ==
    /\ wpc = "filter"
    /\ LET ex == dropExcludedPath(wmr.matches, wtask.ExcludePath)
           sf == filterSuffix(ex.matches, wtask.SuffixFilter)
       IN  wmr' = [matches |-> dropNoUpdatePath(sf, StalePeriod, modTime, now),
                   err |-> PipelineErr(wmr.err, ex.err)]
    /\ wpc' = "store"
    /\ UNCHANGED <<inProcess, result, spc, sarg, sfirst, wtask, modTime, now, fsOps>>
    /\ UNCHANGED notGlob

\* A worker that clears the in-flight marker where it should write the result.
WorkerStore_ClearsFirst ==
    /\ wpc = "store"
    /\ inProcess' = [p \in DOMAIN inProcess \ {wtask.Path} |-> inProcess[p]]
    /\ wpc' = "delete"
    /\ UNCHANGED <<result, spc, sarg, sfirst, wtask, wmr, modTime, now, fsOps>>
    /\ UNCHANGED notGlob

\* s.result.Store(taskInfo.Path, mr) (line 76).
WorkerStore ==
    /\ wpc = "store"
    /\ result' = [p \in DOMAIN result \cup {wtask.Path} |->
                     IF p = wtask.Path THEN wmr ELSE result[p]]
    /\ wpc' = "delete"
    /\ UNCHANGED <<inProcess, spc, sarg, sfirst, wtask, wmr, modTime, now, fsOps>>
    /\ UNCHANGED notGlob

\* A worker that goes back to its receive and leaves the marker in place.
WorkerDelete_KeepsMarker ==
    /\ wpc = "delete"
    /\ wpc' = "recv"
    /\ wtask' = NoArg
    /\ wmr' = NoRet
    /\ UNCHANGED <<inProcess, result, spc, sarg, sfirst, modTime, now, fsOps>>
    /\ UNCHANGED notGlob

\* s.inProcess.Delete(taskInfo.Path) (line 77), then back to the receive.
WorkerDelete ==
    /\ wpc = "delete"
    /\ inProcess' = [p \in DOMAIN inProcess \ {wtask.Path} |-> inProcess[p]]
    /\ wpc' = "recv"
    /\ wtask' = NoArg
    /\ wmr' = NoRet
    /\ UNCHANGED <<result, spc, sarg, sfirst, modTime, now, fsOps>>
    /\ UNCHANGED notGlob

----------------------------------------------------------------------------
\* The environment of the GlobSearcher: the clock and the filesystem.

Tick ==
    /\ fsOps < MaxFsOps
    /\ now' = now + TickStep
    /\ fsOps' = fsOps + 1
    /\ UNCHANGED <<inProcess, result, spc, sarg, sfirst, wpc, wtask, wmr, modTime>>
    /\ UNCHANGED notGlob

RemoveFile ==
    /\ fsOps < MaxFsOps
    /\ \E f \in DOMAIN modTime \cap Removable :
          modTime' = [g \in DOMAIN modTime \ {f} |-> modTime[g]]
    /\ fsOps' = fsOps + 1
    /\ UNCHANGED <<inProcess, result, spc, sarg, sfirst, wpc, wtask, wmr, now>>
    /\ UNCHANGED notGlob

----------------------------------------------------------------------------

\* NewGlobSearcher: empty maps, the worker waiting at its receive.
InitGlob ==
    /\ inProcess = <<>>
    /\ result = <<>>
    /\ spc = [c \in Callers |-> "idle"]
    /\ sarg = [c \in Callers |-> NoArg]
    /\ sfirst = [c \in Callers |-> FALSE]
    /\ wpc = "recv"
    /\ wtask = NoArg
    /\ wmr = NoRet
    /\ modTime = (FileX :> 30) @@ (FileSkip :> 30) @@ (FileY :> 20) @@ (FileOld :> 0)
    /\ now = StartNow
    /\ fsOps = 0

\* A GlobSearcher that nobody uses.
IdleGlob == InitGlob

\* The worker's pipeline on its own: the tasks it may have received.
PatLog == <<"a", "/", "*", ".", "l", "o", "g">>

FilterPatterns == {PatA, PatLog, PatBroken}

SuffixTxt == <<".", "t", "x", "t">>

FilterParams ==
    ParamChoices \cup
    { [ExcludePath |-> <<FileSkip>>, SuffixFilter |-> <<>>],
      [ExcludePath |-> <<>>, SuffixFilter |-> <<SuffixLog, SuffixTxt>>],
      [ExcludePath |-> <<PatBroken, <<"a", "/", "s", "*">>>>, SuffixFilter |-> <<SuffixTxt>>] }

\* The worker has just received a task (line 67) whose caller has returned.
InitFilter ==
    /\ \E p \in FilterPatterns, q \in FilterParams :
          /\ wtask = [Path |-> p, ExcludePath |-> q.ExcludePath,
                      SuffixFilter |-> q.SuffixFilter]
          /\ inProcess = (p :> q)
    /\ result = <<>>
    /\ spc = [c \in Callers |-> "idle"]
    /\ sarg = [c \in Callers |-> NoArg]
    /\ sfirst = [c \in Callers |-> FALSE]
    /\ wpc = "glob"
    /\ wmr = NoRet
    /\ modTime = (FileX :> 30) @@ (FileSkip :> 30) @@ (FileY :> 20) @@ (FileOld :> 0)
    /\ now = StartNow
    /\ fsOps = 0

\* The worker takes the task through lines 72-77 while the clock and the
\* filesystem move.
NextFilter ==
    \/ WorkerGlob
    \/ WorkerFilter
    \/ WorkerStore
    \/ WorkerDelete
    \/ Tick
    \/ RemoveFile

NextGlob ==
    \/ \E c \in Callers : SearchLoad(c)
    \/ \E c \in Callers : SearchStore(c)
    \/ \E c \in Callers : SearchSend(c)
    \/ \E c \in Callers : SearchReturn(c)
    \/ WorkerGlob
    \/ WorkerFilter
    \/ WorkerStore
    \/ WorkerDelete
    \/ Tick
    \/ RemoveFile

----------------------------------------------------------------------------
\* AccessPicker: the directory-service response and its decoding.

\* Index of the first ch in s at or after position from, 0 when there is none.
RECURSIVE IndexFrom(_, _, _)
IndexFrom(s, ch, from) ==
    IF from > Len(s) THEN 0
    ELSE IF s[from] = ch THEN from
    ELSE IndexFrom(s, ch, from + 1)

\* strings.Split(s, sep) for a one-character sep.
RECURSIVE Split(_, _)
Split(s, sep) ==
    LET i == IndexFrom(s, sep, 1)
    IN  IF i = 0 THEN <<s>>
        ELSE <<Take(s, i - 1)>> \o Split(Drop(s, i), sep)

\* ap.pattern.FindStringSubmatch(s) for serverInfoPattern
\* "(?P<ip>.*?):(?P<port>.*?)#(?P<weight>.*?)\|(?P<idc>.*)": the leftmost match
\* starts at the first character, the lazy groups end at the first ":", the
\* first "#" after it and the first "|" after that, and idc is the rest.
\* No match gives no submatches.
FindStringSubmatch(s) ==
    LET i == IndexFrom(s, ":", 1)
        j == IF i = 0 THEN 0 ELSE IndexFrom(s, "#", i + 1)
        k == IF j = 0 THEN 0 ELSE IndexFrom(s, "|", j + 1)
    IN  IF k = 0 THEN <<>>
        ELSE << SubSeq(s, 1, k) \o Drop(s, k),
                Take(s, i - 1),
                SubSeq(s, i + 1, j - 1),
                SubSeq(s, j + 1, k - 1),
                Drop(s, k) >>

parseAccessServerInfo(s) ==
    LET matches == FindStringSubmatch(s)
    IN  IF Len(matches) < 5 THEN [ip |-> <<>>, port |-> <<>>, idc |-> <<>>]
        ELSE [ip |-> matches[2], port |-> matches[3], idc |-> matches[5]]

\* A loop that keeps every complete record, whatever its idc.
KeepRecord_AnyIdc(r, wantIdc) ==
    ~ (r.ip = <<>> \/ r.port = <<>> \/ r.idc = <<>>)

\* Whether the loop of lines 123-137 appends the record to endpointList.
KeepRecord(r, wantIdc) ==
    /\ ~ (r.ip = <<>> \/ r.port = <<>> \/ r.idc = <<>>)
    /\ (wantIdc # <<>> => r.idc = wantIdc)

\* fmt.Sprintf("%s:%s", ip, port)
FormatEndpoint(r) == r.ip \o <<":">> \o r.port

RECURSIVE BuildEndpointList(_, _)
BuildEndpointList(infos, wantIdc) ==
    IF infos = <<>> THEN <<>>
    ELSE LET r == parseAccessServerInfo(Head(infos))
         IN  (IF KeepRecord(r, wantIdc) THEN <<FormatEndpoint(r)>> ELSE <<>>)
                 \o BuildEndpointList(Tail(infos), wantIdc)

\* Server-list strings the directory service may hold.
ServersABC ==
    <<"a", ":", "1", "#", "5", "|", "D", ";",
      "b", ":", "2", "#", "5", "|", "E", ";",
      "c", ":", "3", "#", "5", "|", "D">>

ServersMalformed ==
    <<"d", ":", "4", "#", "1", "|", "D", ";",
      ":", "5", "#", "1", "|", "D", ";",
      "e", ":", "6", "#", "1", "|", ";",
      "f", "6", "#", "1", "|", "D">>

ServersNone == <<>>

IdcD == <<"D">>

\* A response of one URL. body: whether io.Copy reads it ("ok") or fails;
\* envelope: whether the body is a JSON object ("object") or not JSON
\* ("garbage"); inner: the text of the envelope's field wemqAccessLogServer: a
\* JSON object, not JSON ("garbage"), or "" because the envelope lacks the
\* field ("absent"); servers: the inner object's field wemqAccessServer.
Response(body, envelope, inner, servers) ==
    [body |-> body, envelope |-> envelope, inner |-> inner, servers |-> servers]

Responses ==
    { Response("readerr", "garbage", "absent", <<>>),
      Response("ok", "garbage", "absent", <<>>),
      Response("ok", "object", "absent", <<>>),
      Response("ok", "object", "garbage", <<>>) }
    \cup { Response("ok", "object", "object", sl) :
             sl \in {ServersABC, ServersMalformed, ServersNone} }

NoResp == Response("none", "none", "none", <<>>)

\* Lines 104-119: the stage at which decoding the response fails, "ok" if none.
DecodeStage(resp) ==
    IF resp.body # "ok" THEN "copyData"
    ELSE IF resp.envelope # "object" THEN "unmarshal AccessServerResponse"
    ELSE IF resp.inner # "object" THEN "unmarshal ServerList"
    ELSE "ok"

\* Lines 121-137 on a response that decodes.
DecodedEndpointList(resp, wantIdc) ==
    BuildEndpointList(Split(resp.servers, ";"), wantIdc)

SyncFailures ==
    {"all endpoint unavailable", "copyData", "unmarshal AccessServerResponse",
     "unmarshal ServerList"}

Pickers == 1..NumPickers

Urls == 1..NumUrls

\* rand.Int31() % 100 (line 43)
StartModulus == 100

StartOffsets == {i \in 0..MaxStart : i < StartModulus}

----------------------------------------------------------------------------
\* AccessPicker.Pick, one step per access to shared state.

\* A Pick that skips the test of line 59 and goes on to line 62.
PickLen_NoCheck(p) ==
    /\ crash = "none"
    /\ ppc[p] = "idle"
    /\ picked.on => Len(picked.eps) + Cardinality({q \in Pickers : ppc[q] # "idle"})
                         < MaxPicks
    /\ ppc' = [ppc EXCEPT ![p] = "add"]
    /\ UNCHANGED <<accessEndpointList, idx, idc, mu, pnext, crash, rpc, rn, rresp,
                   rlist, syncLog>>
    /\ UNCHANGED <<picked, notPick>>

\* len(ap.accessEndpointList) == 0 (line 59): on an empty list Pick returns ""
\* at once (line 60); otherwise it goes on to line 62.
PickLen(p) ==
    /\ crash = "none"
    /\ ppc[p] = "idle"
    /\ picked.on => Len(picked.eps) + Cardinality({q \in Pickers : ppc[q] # "idle"})
                         < MaxPicks
    /\ ppc' = [ppc EXCEPT ![p] = IF accessEndpointList.len = 0 THEN "idle" ELSE "add"]
    /\ picked' = IF picked.on /\ accessEndpointList.len = 0
                 THEN [picked EXCEPT !.eps = Append(@, <<>>)]
                 ELSE picked
    /\ UNCHANGED <<accessEndpointList, idx, idc, mu, pnext, crash, rpc, rn, rresp,
                   rlist, syncLog>>
    /\ UNCHANGED notPick

\* ap.idx.Add(1) (line 62): the atomic increment, its result held for the "%".
PickAdd(p) ==
    /\ crash = "none"
    /\ ppc[p] = "add"
    /\ idx' = idx + 1
    /\ pnext' = [pnext EXCEPT ![p] = idx + 1]
    /\ ppc' = [ppc EXCEPT ![p] = "mod"]
    /\ UNCHANGED <<accessEndpointList, idc, mu, crash, rpc, rn, rresp, rlist, syncLog>>
    /\ UNCHANGED <<picked, notPick>>

\* next := ... % int32(len(ap.accessEndpointList)) (line 62): the length is read
\* again.
PickMod(p) ==
    /\ crash = "none"
    /\ ppc[p] = "mod"
    /\ accessEndpointList.len # 0
    /\ pnext' = [pnext EXCEPT ![p] = pnext[p] % accessEndpointList.len]
    /\ ppc' = [ppc EXCEPT ![p] = "store"]
    /\ UNCHANGED <<accessEndpointList, idx, idc, mu, crash, rpc, rn, rresp, rlist,
                   syncLog>>
    /\ UNCHANGED <<picked, notPick>>

\* The same line when that length is 0: integer divide by zero.
PickModPanic(p) ==
    /\ crash = "none"
    /\ ppc[p] = "mod"
    /\ accessEndpointList.len = 0
    /\ crash' = "integer divide by zero"
    /\ ppc' = [ppc EXCEPT ![p] = "panic"]
    /\ UNCHANGED <<accessEndpointList, idx, idc, mu, pnext, rpc, rn, rresp, rlist,
                   syncLog>>
    /\ UNCHANGED <<picked, notPick>>

\* A Pick that never writes next back to the cursor.
PickStore_Keep(p) ==
    /\ crash = "none"
    /\ ppc[p] = "store"
    /\ idx' = idx
    /\ ppc' = [ppc EXCEPT ![p] = "index"]
    /\ UNCHANGED <<accessEndpointList, idc, mu, pnext, crash, rpc, rn, rresp, rlist,
                   syncLog>>
    /\ UNCHANGED <<picked, notPick>>

\* ap.idx.Store(next) (line 63).
PickStore(p) ==
    /\ crash = "none"
    /\ ppc[p] = "store"
    /\ idx' = pnext[p]
    /\ ppc' = [ppc EXCEPT ![p] = "index"]
    /\ UNCHANGED <<accessEndpointList, idc, mu, pnext, crash, rpc, rn, rresp, rlist,
                   syncLog>>
    /\ UNCHANGED <<picked, notPick>>

\* ap.accessEndpointList[next] (line 64) on a slice header h: the bounds check
\* is against h.len; past the end of the backing array (a header read between
\* the two stores of an assignment) the load is outside the array.
IndexResult(h, next) ==
    IF next < Len(h.data) THEN h.data[next + 1] ELSE <<"?">>

\* ep := ap.accessEndpointList[next]; return ep (lines 64-66).
PickIndex(p) ==
    /\ crash = "none"
    /\ ppc[p] = "index"
    /\ pnext[p] < accessEndpointList.len
    /\ ppc' = [ppc EXCEPT ![p] = "idle"]
    /\ pnext' = [pnext EXCEPT ![p] = 0]
    /\ UNCHANGED <<accessEndpointList, idx, idc, mu, crash, rpc, rn, rresp, rlist,
                   syncLog>>
    /\ UNCHANGED notPick
    /\ picked' = IF picked.on
                 THEN [picked EXCEPT !.eps =
                          Append(@, IndexResult(accessEndpointList, pnext[p]))]
                 ELSE picked

\* The same line when next is not below the length: index out of range.
PickIndexPanic(p) ==
    /\ crash = "none"
    /\ ppc[p] = "index"
    /\ pnext[p] >= accessEndpointList.len
    /\ crash' = "index out of range"
    /\ ppc' = [ppc EXCEPT ![p] = "panic"]
    /\ UNCHANGED <<accessEndpointList, idx, idc, mu, pnext, rpc, rn, rresp, rlist,
                   syncLog>>
    /\ UNCHANGED <<picked, notPick>>

----------------------------------------------------------------------------
\* AccessPicker.syncIp and syncAccessEpOnce.

\* The ticker fires (lines 73-74): a refresh cycle starts at the first URL.
SyncTick ==
    /\ crash = "none"
    /\ rpc = "idle"
    /\ rpc' = "get"
    /\ rn' = 1
    /\ UNCHANGED <<accessEndpointList, idx, idc, mu, ppc, pnext, crash, rresp, rlist,
                   syncLog>>
    /\ UNCHANGED <<picked, notPick>>

\* A refresh that gives the cycle up at the first URL that fails.
SyncGetFail_Fatal ==
    /\ crash = "none"
    /\ rpc = "get"
    /\ rn' = 0 /\ rpc' = "idle" /\ syncLog' = "all endpoint unavailable"
    /\ UNCHANGED <<accessEndpointList, idx, idc, mu, ppc, pnext, crash, rresp, rlist>>
    /\ UNCHANGED <<picked, notPick>>

\* httpClient.Get(ccAddress) fails (lines 93-97): the next URL is tried, and
\* after the last one the cycle is given up (lines 99-102).
SyncGetFail ==
    /\ crash = "none"
    /\ rpc = "get"
    /\ IF rn < NumUrls
       THEN rn' = rn + 1 /\ UNCHANGED <<rpc, syncLog>>
       ELSE rn' = 0 /\ rpc' = "idle" /\ syncLog' = "all endpoint unavailable"
    /\ UNCHANGED <<accessEndpointList, idx, idc, mu, ppc, pnext, crash, rresp, rlist>>
    /\ UNCHANGED <<picked, notPick>>

\* httpClient.Get(ccAddress) answers (lines 93-96): the loop is left.
SyncGetOk ==
    /\ crash = "none"
    /\ rpc = "get"
    /\ \E resp \in Responses : rresp' = resp
    /\ rpc' = "decode"
    /\ UNCHANGED <<accessEndpointList, idx, idc, mu, ppc, pnext, crash, rn, rlist,
                   syncLog>>
    /\ UNCHANGED <<picked, notPick>>

\* A refresh that publishes what it has, an empty list, before it checks the
\* decoding error.
SyncDecodeFail_Blank ==
    /\ crash = "none"
    /\ rpc = "decode"
    /\ DecodeStage(rresp) # "ok"
    /\ syncLog' = DecodeStage(rresp)
    /\ rpc' = "idle"
    /\ rn' = 0
    /\ rresp' = NoResp
    /\ accessEndpointList' = [data |-> <<>>, len |-> 0]
    /\ UNCHANGED <<idx, idc, mu, ppc, pnext, crash, rlist>>
    /\ UNCHANGED <<picked, notPick>>

\* Reading or decoding the response fails (lines 104-119): the cycle returns.
SyncDecodeFail ==
    /\ crash = "none"
    /\ rpc = "decode"
    /\ DecodeStage(rresp) # "ok"
    /\ syncLog' = DecodeStage(rresp)
    /\ rpc' = "idle"
    /\ rn' = 0
    /\ rresp' = NoResp
    /\ UNCHANGED <<accessEndpointList, idx, idc, mu, ppc, pnext, crash, rlist>>
    /\ UNCHANGED <<picked, notPick>>

\* The response decodes: endpointList is built (lines 121-137) and the mutex
\* taken (line 138).
SyncDecodeOk ==
    /\ crash = "none"
    /\ rpc = "decode"
    /\ DecodeStage(rresp) = "ok"
    /\ mu = "free"
    /\ rlist' = DecodedEndpointList(rresp, idc)
    /\ mu' = "syncAccessEpOnce"
    /\ syncLog' = "result"
    /\ rpc' = "assign"
    /\ rn' = 0
    /\ rresp' = NoResp
    /\ UNCHANGED <<accessEndpointList, idx, idc, ppc, pnext, crash>>
    /\ UNCHANGED <<picked, notPick>>

\* ap.accessEndpointList = endpointList (line 141) stores the words of the slice
\* header one after the other, in an order the compiler chooses: here the
\* pointer to the backing array.
SyncAssignData ==
    /\ crash = "none"
    /\ rpc \in {"assign", "assignData"}
    /\ accessEndpointList' = [accessEndpointList EXCEPT !.data = rlist]
    /\ rpc' = IF rpc = "assign" THEN "assignLen" ELSE "unlock"
    /\ UNCHANGED <<idx, idc, mu, ppc, pnext, crash, rn, rresp, rlist, syncLog>>
    /\ UNCHANGED <<picked, notPick>>

\* ... and here the length.
SyncAssignLen ==
    /\ crash = "none"
    /\ rpc \in {"assign", "assignLen"}
    /\ accessEndpointList' = [accessEndpointList EXCEPT !.len = Len(rlist)]
    /\ rpc' = IF rpc = "assign" THEN "assignData" ELSE "unlock"
    /\ UNCHANGED <<idx, idc, mu, ppc, pnext, crash, rn, rresp, rlist, syncLog>>
    /\ UNCHANGED <<picked, notPick>>

\* defer ap.Unlock() (line 139).
SyncUnlock ==
    /\ crash = "none"
    /\ rpc = "unlock"
    /\ mu' = "free"
    /\ rlist' = <<>>
    /\ rpc' = "idle"
    /\ UNCHANGED <<accessEndpointList, idx, idc, ppc, pnext, crash, rn, rresp, syncLog>>
    /\ UNCHANGED <<picked, notPick>>

----------------------------------------------------------------------------

\* The fields of a new AccessPicker apart from the cursor and the filter.
PickerFields ==
    /\ mu = "free"
    /\ ppc = [p \in Pickers |-> "idle"]
    /\ pnext = [p \in Pickers |-> 0]
    /\ crash = "none"
    /\ rpc = "idle"
    /\ rn = 0
    /\ rresp = NoResp
    /\ rlist = <<>>
    /\ syncLog = "none"

\* NewAccessPicker: an empty list, a cursor drawn at random, the configured
\* locality filter.
InitPick ==
    /\ PickerFields
    /\ accessEndpointList = [data |-> <<>>, len |-> 0]
    /\ picked = [on |-> FALSE, eps |-> <<>>]
    /\ idx \in StartOffsets
    /\ idc \in {<<>>, IdcD}

\* An AccessPicker that nobody uses.
IdlePick ==
    /\ PickerFields
    /\ accessEndpointList = [data |-> <<>>, len |-> 0]
    /\ picked = [on |-> FALSE, eps |-> <<>>]
    /\ idx = 0
    /\ idc = <<>>

NextPick ==
    \/ \E p \in Pickers : PickLen(p)
    \/ \E p \in Pickers : PickAdd(p)
    \/ \E p \in Pickers : PickMod(p)
    \/ \E p \in Pickers : PickModPanic(p)
    \/ \E p \in Pickers : PickStore(p)
    \/ \E p \in Pickers : PickIndex(p)
    \/ \E p \in Pickers : PickIndexPanic(p)
    \/ SyncTick
    \/ SyncGetFail
    \/ SyncGetOk
    \/ SyncDecodeFail
    \/ SyncDecodeOk
    \/ SyncAssignData
    \/ SyncAssignLen
    \/ SyncUnlock

\* The endpoint lists of the fixed-list runs (as wemq_test.go:24 sets one).
EpA == <<"a", ":", "1">>
EpB == <<"b", ":", "2">>
EpC == <<"c", ":", "3">>

FixedLists == {<<>>, <<EpA, EpB>>, <<EpA, EpB, EpC>>}

\* A picker whose list is as constructed (empty) or was set once, and whose
\* refresh never succeeds: TestAccessPicker's setting.
InitFixed ==
    /\ PickerFields
    /\ idx \in StartOffsets
    /\ idc = <<>>
    /\ \E l \in FixedLists : accessEndpointList = [data |-> l, len |-> Len(l)]
    /\ picked = [on |-> TRUE, eps |-> <<>>]

\* Pick() calls on the fixed list, each returned endpoint appended to picked.
NextFixed ==
    \/ \E p \in Pickers : PickLen(p)
    \/ \E p \in Pickers : PickAdd(p)
    \/ \E p \in Pickers : PickMod(p)
    \/ \E p \in Pickers : PickStore(p)
    \/ \E p \in Pickers : PickIndex(p)

\* The refresh goroutine on its own: nobody calls Pick().
NextSync ==
    \/ SyncTick
    \/ SyncGetFail
    \/ SyncGetOk
    \/ SyncDecodeFail
    \/ SyncDecodeOk
    \/ SyncAssignData
    \/ SyncAssignLen
    \/ SyncUnlock

\* One goroutine that calls Pick() again and again on a fixed list, from
\* starting offsets across the range of rand.Int31() % 100 (line 43).
SeqOffsets == {i \in {0, 1, 5, 99} : i < StartModulus}

SeqPicker == CHOOSE p \in Pickers : \A q \in Pickers : p <= q

InitSeq ==
    /\ PickerFields
    /\ idx \in SeqOffsets
    /\ idc = <<>>
    /\ \E l \in FixedLists : accessEndpointList = [data |-> l, len |-> Len(l)]
    /\ picked = [on |-> TRUE, eps |-> <<>>]

NextSeq ==
    \/ PickLen(SeqPicker)
    \/ PickAdd(SeqPicker)
    \/ PickMod(SeqPicker)
    \/ PickStore(SeqPicker)
    \/ PickIndex(SeqPicker)

----------------------------------------------------------------------------
\* ACLManager: regular expressions, labels and policy documents.

\* regexp.Compile fails on the model's patterns when a "(" is never closed or
\* a repetition has nothing to repeat.
RegexInvalid(re) ==
    \/ \E i \in 1..Len(re) : re[i] = "(" /\ \A j \in (i + 1)..Len(re) : re[j] # ")"
    \/ re # <<>> /\ Head(re) = "*"
    \/ Len(re) >= 2 /\ re[1] = "^" /\ re[2] = "*"

\* Number of leading characters of s that the one-character pattern c matches.
RECURSIVE RunLen(_, _)
RunLen(c, s) ==
    IF s # <<>> /\ (c = "." \/ c = Head(s)) THEN 1 + RunLen(c, Tail(s)) ELSE 0

\* Whether re matches a prefix of s; re holds literals, ".", "x*" and a final "$".
RECURSIVE MatchHere(_, _)
MatchHere(re, s) ==
    IF re = <<>> THEN TRUE
    ELSE IF re = <<"$">> THEN s = <<>>
    ELSE IF Len(re) >= 2 /\ re[2] = "*"
        THEN \E k \in 0..RunLen(re[1], s) : MatchHere(Drop(re, 2), Drop(s, k))
    ELSE /\ s # <<>>
         /\ (re[1] = "." \/ re[1] = Head(s))
         /\ MatchHere(Tail(re), Tail(s))

\* A matcher for which a pattern that does not compile matches everything.
MatchString_Lenient(re, s) ==
    IF RegexInvalid(re) THEN [matched |-> TRUE, err |-> "nil"]
    ELSE [matched |-> IF re # <<>> /\ Head(re) = "^"
                      THEN MatchHere(Tail(re), s)
                      ELSE \E i \in 0..Len(s) : MatchHere(re, Drop(s, i)),
          err |-> "nil"]

\* regexp.MatchString(pattern, s) -> (matched, err): an unanchored search.
MatchString(re, s) ==
    IF RegexInvalid(re) THEN [matched |-> FALSE, err |-> "error"]
    ELSE [matched |-> IF re # <<>> /\ Head(re) = "^"
                      THEN MatchHere(Tail(re), s)
                      ELSE \E i \in 0..Len(s) : MatchHere(re, Drop(s, i)),
          err |-> "nil"]

\* string(labels[model.LabelName(l)]): "" for a label the set lacks.
LabelValue(labels, l) == IF l \in DOMAIN labels THEN labels[l] ELSE <<>>

\* A lookup that passes over the entries whose label the label set lacks.
AnyEntryMatches_PresentOnly(list, labels) ==
    \E l \in DOMAIN list \cap DOMAIN labels :
        LET r == MatchString(list[l], labels[l])
        IN  r.err = "nil" /\ r.matched

\* Whether some entry of an allow_list/block_list map matches the label set
\* (the loops of lines 97-102 and 105-110).
AnyEntryMatches(list, labels) ==
    \E l \in DOMAIN list :
        LET r == MatchString(list[l], LabelValue(labels, l))
        IN  r.err = "nil" /\ r.matched

Web  == <<"w", "e", "b">>
Db   == <<"d", "b">>
Dev  == <<"d", "e", "v">>
Prod == <<"p", "r", "o", "d">>

ReStartsWeb == <<"^", "w", "e">>
ReDev       == <<"d", "e", "v", "$">>
ReAny       == <<".", "*">>
ReBroken    == <<"(", "w">>

\* The label sets callers ask about.
LabelSets ==
    { <<>>,
      ("app" :> Web),
      ("app" :> Web) @@ ("env" :> Dev),
      ("app" :> Db) @@ ("env" :> Prod) }

FilterCase(key, value, excludePath, suffix) ==
    [Key |-> key, Value |-> value, ExcludePath |-> excludePath, Suffix |-> suffix]

ZeroFilterCase == FilterCase("", <<>>, <<>>, <<>>)

\* A Go map: nil, or a map with entries m.
NilMap == [nil |-> TRUE, m |-> <<>>]

GoMap(m) == [nil |-> FALSE, m |-> m]

\* ACLConfig{} (line 47)
ZeroACLConfig ==
    [AllowList |-> NilMap, BlockList |-> NilMap, FilterOptions |-> <<>>,
     DefaultFilterOption |-> ZeroFilterCase]

\* A JSON policy document: a field that may be absent is a sequence of zero or
\* one values.
JsonDoc(allow, block, filters, default) ==
    [allow_list |-> allow, block_list |-> block, filter_options |-> filters,
     default_filter |-> default]

DocWeb ==
    JsonDoc(<<("app" :> ReStartsWeb)>>, <<("env" :> ReDev)>>,
            << FilterCase("app", ReStartsWeb, <<FileSkip>>, <<SuffixLog>>),
               FilterCase("app", ReAny, <<>>, <<>>) >>,
            <<FilterCase("", <<>>, <<>>, <<SuffixLog>>)>>)

DocOpen ==
    JsonDoc(<<>>, <<("app" :> Db)>>,
            << FilterCase("env", ReBroken, <<>>, <<>>),
               FilterCase("env", ReAny, <<FileSkip>>, <<>>) >>,
            <<>>)

DocEmptyAllow == JsonDoc(<<<<>>>>, <<>>, <<>>, <<>>)

DocDb == JsonDoc(<<("app" :> Db) @@ ("env" :> ReDev)>>, <<>>, <<>>, <<>>)

\* Policies whose entries name labels a label set may lack, or hold regular
\* expressions that do not compile.
ReEmptyOnly == <<"^", "$">>
ReStar      == <<"*">>

DocAllowAbsent == JsonDoc(<<("app" :> Db) @@ ("env" :> ReEmptyOnly)>>, <<>>, <<>>, <<>>)

DocBlockAbsent == JsonDoc(<<>>, <<("env" :> ReEmptyOnly)>>, <<>>, <<>>)

DocBrokenBlock ==
    JsonDoc(<<>>, <<("app" :> ReBroken)>>,
            << FilterCase("app", ReStar, <<FileSkip>>, <<>>) >>,
            <<FilterCase("", <<>>, <<>>, <<SuffixLog>>)>>)

DocBrokenAllow == JsonDoc(<<("app" :> ReBroken) @@ ("env" :> ReStar)>>, <<>>, <<>>, <<>>)

\* What ioutil.ReadFile and json.Unmarshal meet at aclFilepath: read: whether
\* the file can be read; json: whether its bytes are a JSON object; doc: the
\* object.
AclFile(read, json, doc) == [read |-> read, json |-> json, doc |-> doc]

NoDoc == JsonDoc(<<>>, <<>>, <<>>, <<>>)

AclFiles ==
    { AclFile(FALSE, FALSE, NoDoc), AclFile(TRUE, FALSE, NoDoc) }
        \cup { AclFile(TRUE, TRUE, d) : d \in {DocWeb, DocOpen, DocEmptyAllow, DocDb} }

\* json.Unmarshal(b, &cfg) into a fresh ACLConfig{}: an absent field keeps its
\* zero value.
Unmarshal(doc) ==
    [AllowList |-> IF doc.allow_list = <<>> THEN NilMap ELSE GoMap(doc.allow_list[1]),
     BlockList |-> IF doc.block_list = <<>> THEN NilMap ELSE GoMap(doc.block_list[1]),
     FilterOptions |-> doc.filter_options,
     DefaultFilterOption |-> IF doc.default_filter = <<>> THEN ZeroFilterCase
                             ELSE doc.default_filter[1]]

\* reflect.DeepEqual(x, y): values of distinct types are never deeply equal.
DeepEqual(x, y) == x.type = y.type /\ x.val = y.val

\* A reload that answers a file it cannot parse by activating an empty policy.
syncOnceOutcome_Blank(f, cur) ==
    IF ~ f.read
        THEN [swap |-> FALSE, cfg |-> cur, log |-> "open acl file failed"]
    ELSE IF ~ f.json
        THEN [swap |-> TRUE, cfg |-> ZeroACLConfig, log |-> "invalid acl file format"]
    ELSE [swap |-> TRUE, cfg |-> Unmarshal(f.doc), log |-> "acl config reload complete"]

\* syncOnce (lines 71-91) on the file f with *m.cfg = cur: whether m.cfg is
\* assigned, the ACLConfig assigned, and what is logged. Line 83 compares the
\* local cfg, an ACLConfig, with m.cfg, a *ACLConfig.
syncOnceOutcome(f, cur) ==
    IF ~ f.read
        THEN [swap |-> FALSE, cfg |-> cur, log |-> "open acl file failed"]
    ELSE IF ~ f.json
        THEN [swap |-> FALSE, cfg |-> cur, log |-> "invalid acl file format"]
    ELSE IF DeepEqual([type |-> "ACLConfig", val |-> Unmarshal(f.doc)],
                      [type |-> "*ACLConfig", val |-> cur])
        THEN [swap |-> FALSE, cfg |-> cur, log |-> "none"]
    ELSE [swap |-> TRUE, cfg |-> Unmarshal(f.doc), log |-> "acl config reload complete"]

\* m.cfg.AllowList != nil and len(m.cfg.AllowList) != 0 (line 95).
AllowListNotNil(c) == ~ c.AllowList.nil

AllowListNotEmpty(c) == Cardinality(DOMAIN c.AllowList.m) # 0

\* An allow list that admits only the label sets every one of its entries matches.
allowAfterAllowList_All(c, labels) ==
    IF AllowListNotNil(c) /\ AllowListNotEmpty(c)
    THEN \A l \in DOMAIN c.AllowList.m :
            LET r == MatchString(c.AllowList.m[l], LabelValue(labels, l))
            IN  r.err = "nil" /\ r.matched
    ELSE TRUE

\* Lines 94-103 of IsAllow on one ACLConfig.
allowAfterAllowList(c, labels) ==
    IF AllowListNotNil(c) /\ AllowListNotEmpty(c)
    THEN AnyEntryMatches(c.AllowList.m, labels)
    ELSE TRUE

\* A block list that is consulted only for label sets the allow list let fail.
allowAfterBlockList_AllowWins(allow, c, labels) ==
    IF allow /\ AllowListNotNil(c) /\ AllowListNotEmpty(c) THEN TRUE
    ELSE IF AnyEntryMatches(c.BlockList.m, labels) THEN FALSE
    ELSE allow

\* Lines 105-111 of IsAllow on one ACLConfig.
allowAfterBlockList(allow, c, labels) ==
    IF AnyEntryMatches(c.BlockList.m, labels) THEN FALSE ELSE allow

\* A loop over the filter cases that lets the last matching case win.
FirstMatch_Last(filters, labels, i) ==
    LET M == {j \in i..Len(filters) :
                /\ filters[j].Key \in DOMAIN labels
                /\ LET r == MatchString(filters[j].Value, labels[filters[j].Key])
                   IN  r.err = "nil" /\ r.matched}
    IN  IF M = {} THEN 0 ELSE CHOOSE j \in M : \A k \in M : k <= j

\* Index of the first filter case that matches (lines 117-124), 0 if none.
RECURSIVE FirstMatch(_, _, _)
FirstMatch(filters, labels, i) ==
    IF i > Len(filters) THEN 0
    ELSE IF /\ filters[i].Key \in DOMAIN labels
            /\ LET r == MatchString(filters[i].Value, labels[filters[i].Key])
               IN  r.err = "nil" /\ r.matched
        THEN i
    ELSE FirstMatch(filters, labels, i + 1)

\* IsAllow (lines 93-112) when every read of m.cfg yields the ACLConfig c.
IsAllowOn(c, labels) == allowAfterBlockList(allowAfterAllowList(c, labels), c, labels)

\* GetFilterOption (lines 114-126) when every read of m.cfg yields c.
GetFilterOptionOn(c, labels) ==
    LET i == FirstMatch(c.FilterOptions, labels, 1)
    IN  IF i > 0 THEN c.FilterOptions[i] ELSE c.DefaultFilterOption

\* The goroutines that call IsAllow and GetFilterOption. The two methods only
\* read m.cfg, so calls do not affect one another and one calling goroutine
\* stands for each of them.
Readers == {"caller"}

NoAnswer == ZeroFilterCase

----------------------------------------------------------------------------
\* ACLManager: IsAllow and GetFilterOption, one step per read of m.cfg. Each
\* step notes the ACLConfig it read in aseen and alast.

\* IsAllow is called: m.cfg.AllowList != nil (line 95, first operand).
IsAllowNil(r) ==
    /\ apc[r] \in {"idle", "done"}
    /\ \E ls \in LabelSets : alabels' = [alabels EXCEPT ![r] = ls]
    /\ aop' = [aop EXCEPT ![r] = "IsAllow"]
    /\ aseen' = [aseen EXCEPT ![r] = {cfg}]
    /\ alast' = [alast EXCEPT ![r] = cfg]
    /\ aallow' = [aallow EXCEPT ![r] = TRUE]
    /\ aret' = [aret EXCEPT ![r] = NoAnswer]
    /\ apc' = [apc EXCEPT ![r] = IF AllowListNotNil(heap[cfg]) THEN "len" ELSE "block"]
    /\ UNCHANGED <<cfg, heap, aclFile, aclLog, reloads>>
    /\ UNCHANGED notACL

\* len(m.cfg.AllowList) != 0 (line 95, second operand); allow = false (line 96).
IsAllowLen(r) ==
    /\ apc[r] = "len"
    /\ aseen' = [aseen EXCEPT ![r] = @ \cup {cfg}]
    /\ alast' = [alast EXCEPT ![r] = cfg]
    /\ aallow' = [aallow EXCEPT ![r] = ~ AllowListNotEmpty(heap[cfg])]
    /\ apc' = [apc EXCEPT ![r] = IF AllowListNotEmpty(heap[cfg]) THEN "allow"
                                                                 ELSE "block"]
    /\ UNCHANGED <<cfg, heap, aclFile, aclLog, reloads, aop, alabels, aret>>
    /\ UNCHANGED notACL

\* for l, v := range m.cfg.AllowList (lines 97-102).
IsAllowAllow(r) ==
    /\ apc[r] = "allow"
    /\ aseen' = [aseen EXCEPT ![r] = @ \cup {cfg}]
    /\ alast' = [alast EXCEPT ![r] = cfg]
    /\ aallow' = [aallow EXCEPT ![r] =
                     IF AnyEntryMatches(heap[cfg].AllowList.m, alabels[r]) THEN TRUE
                     ELSE @]
    /\ apc' = [apc EXCEPT ![r] = "block"]
    /\ UNCHANGED <<cfg, heap, aclFile, aclLog, reloads, aop, alabels, aret>>
    /\ UNCHANGED notACL

\* for l, v := range m.cfg.BlockList (lines 105-110), return allow (line 111).
IsAllowBlock(r) ==
    /\ apc[r] = "block"
    /\ aseen' = [aseen EXCEPT ![r] = @ \cup {cfg}]
    /\ alast' = [alast EXCEPT ![r] = cfg]
    /\ aallow' = [aallow EXCEPT ![r] = allowAfterBlockList(@, heap[cfg], alabels[r])]
    /\ apc' = [apc EXCEPT ![r] = "done"]
    /\ UNCHANGED <<cfg, heap, aclFile, aclLog, reloads, aop, alabels, aret>>
    /\ UNCHANGED notACL

\* GetFilterOption is called: for _, f := range m.cfg.FilterOptions (lines
\* 117-124); the first case that matches is returned. (Line 115 reads m.cfg for
\* a debug log only.)
GetFilterRange(r) ==
    /\ apc[r] \in {"idle", "done"}
    /\ aop' = [aop EXCEPT ![r] = "GetFilterOption"]
    /\ aseen' = [aseen EXCEPT ![r] = {cfg}]
    /\ alast' = [alast EXCEPT ![r] = cfg]
    /\ aallow' = [aallow EXCEPT ![r] = TRUE]
    /\ \E ls \in LabelSets :
          LET i == FirstMatch(heap[cfg].FilterOptions, ls, 1)
          IN  /\ alabels' = [alabels EXCEPT ![r] = ls]
              /\ aret' = [aret EXCEPT ![r] = IF i > 0 THEN heap[cfg].FilterOptions[i]
                                                      ELSE NoAnswer]
              /\ apc' = [apc EXCEPT ![r] = IF i > 0 THEN "done" ELSE "default"]
    /\ UNCHANGED <<cfg, heap, aclFile, aclLog, reloads>>
    /\ UNCHANGED notACL

\* return m.cfg.DefaultFilterOption (line 125).
GetFilterDefault(r) ==
    /\ apc[r] = "default"
    /\ aseen' = [aseen EXCEPT ![r] = @ \cup {cfg}]
    /\ alast' = [alast EXCEPT ![r] = cfg]
    /\ aret' = [aret EXCEPT ![r] = heap[cfg].DefaultFilterOption]
    /\ apc' = [apc EXCEPT ![r] = "done"]
    /\ UNCHANGED <<cfg, heap, aclFile, aclLog, reloads, aop, alabels, aallow>>
    /\ UNCHANGED notACL

----------------------------------------------------------------------------
\* ACLManager: the reload and the policy file.

\* syncOnce (lines 71-91), called by sync on every tick (line 62). Only this
\* goroutine assigns m.cfg and takes m.mux, so the call is one step; a new
\* ACLConfig gets a new address.
syncOnce ==
    /\ reloads < MaxReloads
    /\ LET o == syncOnceOutcome(aclFile, heap[cfg])
       IN  /\ aclLog' = o.log
           /\ heap' = IF o.swap THEN Append(heap, o.cfg) ELSE heap
           /\ cfg' = IF o.swap THEN Len(heap) + 1 ELSE cfg
    /\ reloads' = reloads + 1
    /\ UNCHANGED <<aclFile, apc, aop, alabels, aseen, alast, aallow, aret>>
    /\ UNCHANGED notACL

\* Somebody rewrites, breaks or removes the policy file.
WriteAclFile ==
    /\ \E f \in AclFiles \ {aclFile} : aclFile' = f
    /\ UNCHANGED <<cfg, heap, aclLog, reloads, apc, aop, alabels, aseen,
                   alast, aallow, aret>>
    /\ UNCHANGED notACL

\* A constructor that starts the reload loop without loading the file first.
NewACLManager_NoLoad(f) ==
    /\ aclFile = f
    /\ heap = <<ZeroACLConfig>>
    /\ cfg = 1
    /\ aclLog = "none"
    /\ reloads = 0
    /\ apc = [r \in Readers |-> "idle"]
    /\ aop = [r \in Readers |-> "none"]
    /\ alabels = [r \in Readers |-> <<>>]
    /\ aseen = [r \in Readers |-> {}]
    /\ alast = [r \in Readers |-> cfg]
    /\ aallow = [r \in Readers |-> TRUE]
    /\ aret = [r \in Readers |-> NoAnswer]

\* NewACLManager (lines 43-55) when f is at aclFilepath: m.cfg = &ACLConfig{}
\* (line 47), then the first syncOnce (line 52), all before any caller has the
\* manager.
NewACLManager(f) ==
    LET o == syncOnceOutcome(f, ZeroACLConfig)
    IN  /\ aclFile = f
        /\ heap = IF o.swap THEN <<ZeroACLConfig, o.cfg>> ELSE <<ZeroACLConfig>>
        /\ cfg = IF o.swap THEN 2 ELSE 1
        /\ aclLog = o.log
        /\ reloads = 0
        /\ apc = [r \in Readers |-> "idle"]
        /\ aop = [r \in Readers |-> "none"]
        /\ alabels = [r \in Readers |-> <<>>]
        /\ aseen = [r \in Readers |-> {}]
        /\ alast = [r \in Readers |-> cfg]
        /\ aallow = [r \in Readers |-> TRUE]
        /\ aret = [r \in Readers |-> NoAnswer]

InitACL == \E f \in AclFiles : NewACLManager(f)

\* An ACLManager that nobody uses, over a path with no file.
IdleACL == NewACLManager(AclFile(FALSE, FALSE, NoDoc))

NextACL ==
    \/ \E r \in Readers : IsAllowNil(r)
    \/ \E r \in Readers : IsAllowLen(r)
    \/ \E r \in Readers : IsAllowAllow(r)
    \/ \E r \in Readers : IsAllowBlock(r)
    \/ \E r \in Readers : GetFilterRange(r)
    \/ \E r \in Readers : GetFilterDefault(r)
    \/ syncOnce
    \/ WriteAclFile

\* The policy documents a manager is constructed over when only its decisions
\* are of interest.
PolicyDocs ==
    {DocWeb, DocOpen, DocEmptyAllow, DocDb, DocAllowAbsent, DocBlockAbsent,
     DocBrokenBlock, DocBrokenAllow}

\* NewACLManager over a readable, well-formed policy file.
InitPolicy == \E d \in PolicyDocs : NewACLManager(AclFile(TRUE, TRUE, d))

\* IsAllow and GetFilterOption calls while the policy file stays as it is (and
\* so every reload would reinstall the same policy).
NextPolicy ==
    \/ \E r \in Readers : IsAllowNil(r)
    \/ \E r \in Readers : IsAllowLen(r)
    \/ \E r \in Readers : IsAllowAllow(r)
    \/ \E r \in Readers : IsAllowBlock(r)
    \/ \E r \in Readers : GetFilterRange(r)
    \/ \E r \in Readers : GetFilterDefault(r)

----------------------------------------------------------------------------
\* Config injection: injectConfigFunc and newConfigFunc of promtail's main.
\* A file's text is a sequence of lines.

Injectors == 1..NumInjectors

\* The goroutine that calls newConfigFunc.
Reloader == 0

NoFile == [exists |-> FALSE, text |-> <<>>]

File(t) == [exists |-> TRUE, text |-> t]

ConfOld == <<"clients:", "- url: a">>
ConfNew == <<"clients:", "- url: b">>
ConfBad == <<"clients:", "- url: [">>

\* The content arguments callers pass.
InjectContents == {ConfNew, ConfBad}

\* What a write or copy that fails part-way may leave of text t.
Prefixes(t) == {Take(t, n) : n \in 0..(Len(t) - 1)}

\* Whether the YAML loader accepts the text: a flow sequence must be closed.
LoadsAsConfig(t) == \A n \in 1..Len(t) : t[n] # "- url: ["

FreeMutex == [held |-> FALSE, by |-> Reloader]

HeldBy(g) == [held |-> TRUE, by |-> g]

\* injectConfigFunc(content) is called: mtx.Lock() (line 178).
InjectLock(i) ==
    /\ ipc[i] = "idle"
    /\ ~ mtx.held
    /\ mtx' = HeldBy(i)
    /\ \E content \in InjectContents : icontent' = [icontent EXCEPT ![i] = content]
    /\ ierr' = [ierr EXCEPT ![i] = "none"]
    /\ iwarn' = [iwarn EXCEPT ![i] = {}]
    /\ ipre' = [ipre EXCEPT ![i] = <<>>]
    /\ ipc' = [ipc EXCEPT ![i] = "parse"]
    /\ UNCHANGED <<configFile, backup, cpc, cread>>
    /\ UNCHANGED notInject

\* cfg.DefaultUnmarshal reads the flags and the config file (lines 181-184);
\* on an error the deferred mtx.Unlock is all that is left.
InjectParse(i) ==
    /\ ipc[i] = "parse"
    /\ IF LoadsAsConfig(configFile)
       THEN /\ ipc' = [ipc EXCEPT ![i] = "backup"]
            /\ ierr' = ierr
       ELSE /\ ipc' = [ipc EXCEPT ![i] = "unlock"]
            /\ ierr' = [ierr EXCEPT ![i] = "unable to parse config"]
    /\ UNCHANGED <<configFile, backup, mtx, icontent, iwarn, ipre, cpc, cread>>
    /\ UNCHANGED notInject

\* fileutils.CopyFile(config.configFile, "/tmp/config-backup.yaml") (lines
\* 185-187); the removal of the backup is deferred only after it (line 188).
InjectBackup(i) ==
    /\ ipc[i] = "backup"
    /\ \/ /\ backup' = File(configFile)
          /\ ipre' = [ipre EXCEPT ![i] = configFile]
          /\ ierr' = ierr
          /\ ipc' = [ipc EXCEPT ![i] = "create"]
       \/ /\ backup' \in {backup} \cup {File(t) : t \in Prefixes(configFile)}
          /\ ipre' = ipre
          /\ ierr' = [ierr EXCEPT ![i] = "backup old config failed"]
          /\ ipc' = [ipc EXCEPT ![i] = "unlock"]
    /\ UNCHANGED <<configFile, mtx, icontent, iwarn, cpc, cread>>
    /\ UNCHANGED notInject

\* os.Create(config.configFile) (lines 202-206): the file is truncated, or the
\* call fails and leaves it.
InjectCreate(i) ==
    /\ ipc[i] = "create"
    /\ \/ /\ configFile' = <<>>
          /\ ierr' = ierr
          /\ ipc' = [ipc EXCEPT ![i] = "write"]
       \/ /\ configFile' = configFile
          /\ ierr' = [ierr EXCEPT ![i] = "write new config failed when openning file"]
          /\ ipc' = [ipc EXCEPT ![i] = "rollback"]
    /\ UNCHANGED <<backup, mtx, icontent, iwarn, ipre, cpc, cread>>
    /\ UNCHANGED notInject

\* f.WriteString(content) and f.Close() (lines 208-212).
InjectWrite(i) ==
    /\ ipc[i] = "write"
    /\ \/ /\ configFile' = icontent[i]
          /\ ierr' = ierr
          /\ ipc' = [ipc EXCEPT ![i] = "load"]
       \/ /\ configFile' \in Prefixes(icontent[i])
          /\ ierr' = [ierr EXCEPT ![i] = "write file failed"]
          /\ ipc' = [ipc EXCEPT ![i] = "rollback"]
    /\ UNCHANGED <<backup, mtx, icontent, iwarn, ipre, cpc, cread>>
    /\ UNCHANGED notInject

\* An injection that returns the load error and leaves the file as written.
InjectLoad_NoRollback(i) ==
    /\ ipc[i] = "load"
    /\ IF LoadsAsConfig(configFile)
       THEN ierr' = [ierr EXCEPT ![i] = "nil"]
       ELSE ierr' = [ierr EXCEPT ![i] = "try load config failed"]
    /\ ipc' = [ipc EXCEPT ![i] = "remove"]
    /\ UNCHANGED <<configFile, backup, mtx, icontent, iwarn, ipre, cpc, cread>>
    /\ UNCHANGED notInject

\* cfg.YAML(config.configFile, ...)(tmp) (lines 213-219).
InjectLoad(i) ==
    /\ ipc[i] = "load"
    /\ IF LoadsAsConfig(configFile)
       THEN /\ ierr' = [ierr EXCEPT ![i] = "nil"]
            /\ ipc' = [ipc EXCEPT ![i] = "remove"]
       ELSE /\ ierr' = [ierr EXCEPT ![i] = "try load config failed"]
            /\ ipc' = [ipc EXCEPT ![i] = "rollback"]
    /\ UNCHANGED <<configFile, backup, mtx, icontent, iwarn, ipre, cpc, cread>>
    /\ UNCHANGED notInject

\* rollbackFunc (lines 195-200): fileutils.CopyFile from the backup; a failure
\* is logged and may leave the file as it was or part of the backup in it.
InjectRollback(i) ==
    /\ ipc[i] = "rollback"
    /\ \/ /\ configFile' = backup.text
          /\ iwarn' = iwarn
       \/ /\ configFile' \in {configFile} \cup Prefixes(backup.text)
          /\ iwarn' = [iwarn EXCEPT ![i] = @ \cup {"injectConfig: rollback config error"}]
    /\ ipc' = [ipc EXCEPT ![i] = "remove"]
    /\ UNCHANGED <<backup, mtx, icontent, ierr, ipre, cpc, cread>>
    /\ UNCHANGED notInject

\* The deferred os.Remove("/tmp/config-backup.yaml") (lines 188-194); a failure
\* is logged.
InjectRemove(i) ==
    /\ ipc[i] = "remove"
    /\ \/ /\ backup' = NoFile
          /\ iwarn' = iwarn
       \/ /\ backup' = backup
          /\ iwarn' = [iwarn EXCEPT ![i] = @ \cup {"injectConfig: clean backup config"}]
    /\ ipc' = [ipc EXCEPT ![i] = "unlock"]
    /\ UNCHANGED <<configFile, mtx, icontent, ierr, ipre, cpc, cread>>
    /\ UNCHANGED notInject

\* The deferred mtx.Unlock() (line 179); the call returns ierr[i] and its
\* locals are gone.
InjectUnlock(i) ==
    /\ ipc[i] = "unlock"
    /\ mtx' = FreeMutex
    /\ ipc' = [ipc EXCEPT ![i] = "idle"]
    /\ icontent' = [icontent EXCEPT ![i] = <<>>]
    /\ ierr' = [ierr EXCEPT ![i] = "none"]
    /\ iwarn' = [iwarn EXCEPT ![i] = {}]
    /\ ipre' = [ipre EXCEPT ![i] = <<>>]
    /\ UNCHANGED <<configFile, backup, cpc, cread>>
    /\ UNCHANGED notInject

\* newConfigFunc is called: mtx.Lock() (line 165).
ReloadLock ==
    /\ cpc = "idle"
    /\ ~ mtx.held
    /\ mtx' = HeldBy(Reloader)
    /\ cpc' = "parse"
    /\ UNCHANGED <<configFile, backup, ipc, icontent, ierr, iwarn, ipre, cread>>
    /\ UNCHANGED notInject

\* cfg.DefaultUnmarshal reads the config file (lines 167-172).
ReloadParse ==
    /\ cpc = "parse"
    /\ cread' = IF LoadsAsConfig(configFile)
                THEN [config |-> configFile, err |-> "nil"]
                ELSE [config |-> <<>>, err |-> "unable to parse config"]
    /\ cpc' = "unlock"
    /\ UNCHANGED <<configFile, backup, mtx, ipc, icontent, ierr, iwarn, ipre>>
    /\ UNCHANGED notInject

\* The deferred mtx.Unlock() (line 166); the call returns cread.
ReloadUnlock ==
    /\ cpc = "unlock"
    /\ mtx' = FreeMutex
    /\ cpc' = "idle"
    /\ cread' = [config |-> <<>>, err |-> "none"]
    /\ UNCHANGED <<configFile, backup, ipc, icontent, ierr, iwarn, ipre>>
    /\ UNCHANGED notInject

\* promtail has started from a config file that loads; nobody has the mutex.
InitInject ==
    /\ configFile = ConfOld
    /\ backup = NoFile
    /\ mtx = FreeMutex
    /\ ipc = [i \in Injectors |-> "idle"]
    /\ icontent = [i \in Injectors |-> <<>>]
    /\ ierr = [i \in Injectors |-> "none"]
    /\ iwarn = [i \in Injectors |-> {}]
    /\ ipre = [i \in Injectors |-> <<>>]
    /\ cpc = "idle"
    /\ cread = [config |-> <<>>, err |-> "none"]

\* Config injection that nobody uses.
IdleInject == InitInject

NextInject ==
    \/ \E i \in Injectors : InjectLock(i)
    \/ \E i \in Injectors : InjectParse(i)
    \/ \E i \in Injectors : InjectBackup(i)
    \/ \E i \in Injectors : InjectCreate(i)
    \/ \E i \in Injectors : InjectWrite(i)
    \/ \E i \in Injectors : InjectLoad(i)
    \/ \E i \in Injectors : InjectRollback(i)
    \/ \E i \in Injectors : InjectRemove(i)
    \/ \E i \in Injectors : InjectUnlock(i)
    \/ ReloadLock
    \/ ReloadParse
    \/ ReloadUnlock

----------------------------------------------------------------------------
\* Specifications: one per component, the other components left alone.

StartGlob == InitGlob /\ IdlePick /\ IdleACL /\ IdleInject

SpecGlob == StartGlob /\ [][NextGlob]_vars

StartPick == InitPick /\ IdleGlob /\ IdleACL /\ IdleInject

SpecPick == StartPick /\ [][NextPick]_vars

StartFixed == InitFixed /\ IdleGlob /\ IdleACL /\ IdleInject

SpecFixed == StartFixed /\ [][NextFixed]_vars

StartACL == InitACL /\ IdleGlob /\ IdlePick /\ IdleInject

StartSync == InitPick /\ IdleGlob /\ IdleACL /\ IdleInject

SpecSync == StartSync /\ [][NextSync]_vars

StartSeq == InitSeq /\ IdleGlob /\ IdleACL /\ IdleInject

SpecSeq == StartSeq /\ [][NextSeq]_vars

StartFilter == InitFilter /\ IdlePick /\ IdleACL /\ IdleInject

SpecFilter == StartFilter /\ [][NextFilter]_vars

SpecACL == StartACL /\ [][NextACL]_vars

\* The scheduling searchTask and its callers run under: a goroutine that can
\* take its next step takes it, and a caller blocked at the send of line 51 is
\* served when the worker keeps returning to its receive (the runtime queues
\* the blocked senders of a channel first in, first out).
FairGlob ==
    /\ \A c \in Callers : WF_vars(SearchStore(c))
    /\ \A c \in Callers : SF_vars(SearchSend(c))
    /\ \A c \in Callers : WF_vars(SearchReturn(c))
    /\ WF_vars(WorkerGlob)
    /\ WF_vars(WorkerFilter)
    /\ WF_vars(WorkerStore)
    /\ WF_vars(WorkerDelete)

\* Callers that pass different exclusion and suffix parameters for one pattern.
NextKeyed ==
    \/ \E c \in Callers : SearchLoadAny(c)
    \/ \E c \in Callers : SearchStore(c)
    \/ \E c \in Callers : SearchSend(c)
    \/ \E c \in Callers : SearchReturn(c)
    \/ WorkerGlob
    \/ WorkerFilter
    \/ WorkerStore
    \/ WorkerDelete

SpecKeyed == StartGlob /\ [][NextKeyed]_vars

\* Callers and worker on a filesystem and a clock that stay as they are.
NextSearch ==
    \/ \E c \in Callers : SearchLoad(c)
    \/ \E c \in Callers : SearchStore(c)
    \/ \E c \in Callers : SearchSend(c)
    \/ \E c \in Callers : SearchReturn(c)
    \/ WorkerGlob
    \/ WorkerFilter
    \/ WorkerStore
    \/ WorkerDelete

SpecGlobFair == StartGlob /\ [][NextSearch]_vars /\ FairGlob

StartPolicy == InitPolicy /\ IdleGlob /\ IdlePick /\ IdleInject

SpecPolicy == StartPolicy /\ [][NextPolicy]_vars

StartInject == InitInject /\ IdleGlob /\ IdlePick /\ IdleACL

SpecInject == StartInject /\ [][NextInject]_vars

----------------------------------------------------------------------------
\* Claims about the GlobSearcher.

\* The computations for pattern p that are queued (a caller holds its task at
\* the channel send) or running (the worker holds the task).
InFlight(p) ==
    Cardinality({c \in Callers : spc[c] = "send" /\ sarg[c].Path = p})
        + (IF wpc # "recv" /\ wtask.Path = p THEN 1 ELSE 0)

\* C1: discovery coalescing: for every pattern at most one computation is
\* queued or running at any time, whatever the interleaving of Search() calls.
C1_AtMostOneInFlight == \A p \in Patterns : InFlight(p) <= 1

\* C2: Search() never blocks waiting for a computation: a caller that has
\* marked its pattern in flight and is handing over its task is never held up
\* by a task the worker is still processing; stated for the case the claim
\* names, a task for a different pattern (the send can complete at once).
C2_SearchNeverWaits ==
    \A c \in Callers :
        spc[c] = "send" => ~ (wpc # "recv" /\ wtask.Path # sarg[c].Path)

\* C7: glob error recording: the result the worker recorded for a pattern whose
\* expansion fails with a syntax error carries that error, so a Search() that
\* then reads the cache returns a non-nil error.
C7_GlobErrorRecorded ==
    \A c \in Callers :
        (spc[c] = "result" /\ sarg[c].Path \in DOMAIN result
            /\ Glob(sarg[c].Path, modTime).err # "nil")
        => SearchResult(sarg[c].Path).err # "nil"

----------------------------------------------------------------------------
\* Claims about the AccessPicker.

\* Number of times endpoint e was returned.
Returned(e) == Cardinality({i \in 1..Len(picked.eps) : picked.eps[i] = e})

\* C3: round-robin fairness: once N Pick() calls, sequential or concurrent, on
\* a fixed list of k endpoints have all returned, each endpoint was returned
\* floor(N/k) or ceil(N/k) times.
C3_RoundRobinFair ==
    (\A p \in Pickers : ppc[p] = "idle") =>
        LET k == accessEndpointList.len
            N == Len(picked.eps)
        IN  \A i \in 1..k :
                /\ Returned(accessEndpointList.data[i]) >= N \div k
                /\ Returned(accessEndpointList.data[i]) <= (N + k - 1) \div k

\* C4: a Pick() call works on one version of the endpoint list even when a
\* refresh swaps the list under it, so it never takes a modulus by zero and
\* never indexes out of bounds: no run-time panic ends the process.
C4_PickNeverPanics == crash = "none"

\* C8: a refresh cycle that fails at any stage (every URL fails, the body
\* cannot be read, the envelope or the server list cannot be decoded) leaves
\* the endpoint list exactly as it was, and logs the failure.
C8_FailedSyncKeepsList ==
    [][(rpc \in {"get", "decode"} /\ rpc' = "idle")
        => (accessEndpointList' = accessEndpointList /\ syncLog' \in SyncFailures)]_vars

\* A cycle failed at the last decoding stage while a refreshed, non-empty list
\* was being served.
C8_Witness ==
    /\ rpc = "idle"
    /\ syncLog = "unmarshal ServerList"
    /\ accessEndpointList.len = 3
    /\ accessEndpointList.data = <<EpA, EpB, EpC>>

----------------------------------------------------------------------------
\* Claims about the ACLManager.

\* C5: policy snapshot consistency: a finished IsAllow() or GetFilterOption()
\* call was evaluated against one policy version, so what it returns is what
\* one of the versions that were active during the call gives for its labels;
\* it never combines the allow list of one version with the block list of
\* another, nor the filter cases of one with the default case of another.
C5_OneSnapshotPerCall ==
    \A r \in Readers :
        apc[r] = "done" =>
            \E x \in aseen[r] :
                IF aop[r] = "IsAllow"
                THEN aallow[r] = IsAllowOn(heap[x], alabels[r])
                ELSE aret[r] = GetFilterOptionOn(heap[x], alabels[r])

\* C6: policy reload idempotence: a reload that parses a file whose content is
\* structurally equal to the active policy does not replace the active policy
\* reference and does not report a completed reload.
C6_ReloadIdempotent ==
    [][(/\ reloads' = reloads + 1
        /\ aclFile.read /\ aclFile.json
        /\ Unmarshal(aclFile.doc) = heap[cfg])
        => (cfg' = cfg /\ aclLog' # "acl config reload complete")]_vars

\* C9: a reload that cannot read or cannot parse the policy file leaves the
\* active policy reference and the policy it refers to unchanged, so IsAllow()
\* and GetFilterOption() answer every label set as before the reload.
C9_FailedReloadKeepsPolicy ==
    [][(reloads' = reloads + 1 /\ ~ (aclFile.read /\ aclFile.json))
        => (/\ cfg' = cfg
            /\ heap'[cfg'] = heap[cfg]
            /\ \A ls \in LabelSets :
                  /\ IsAllowOn(heap'[cfg'], ls) = IsAllowOn(heap[cfg], ls)
                  /\ GetFilterOptionOn(heap'[cfg'], ls) = GetFilterOptionOn(heap[cfg], ls))]_vars

\* A reload met an unparsable file while a loaded policy with an allow list, a
\* block list and filter cases was active, and that policy is still active.
C9_Witness ==
    /\ reloads >= 1
    /\ aclLog = "invalid acl file format"
    /\ heap[cfg] = Unmarshal(DocWeb)

\* C10: allow/block precedence: a label set that matches at least one block
\* list regex is refused, by every IsAllow() call and under every policy,
\* whatever the allow list is and whether or not one of its entries matches.
C10_BlockListWins ==
    /\ \A r \in Readers :
          (/\ apc[r] = "done" /\ aop[r] = "IsAllow"
           /\ AnyEntryMatches(heap[alast[r]].BlockList.m, alabels[r]))
          => aallow[r] = FALSE
    /\ \A ls \in LabelSets :
          AnyEntryMatches(heap[cfg].BlockList.m, ls) => ~ IsAllowOn(heap[cfg], ls)

\* An IsAllow() call has returned for a label set that matches both an allow
\* list entry and a block list entry of the one policy it read.
C10_Witness ==
    \E r \in Readers :
        /\ apc[r] = "done" /\ aop[r] = "IsAllow"
        /\ Cardinality(aseen[r]) = 1
        /\ AnyEntryMatches(heap[alast[r]].AllowList.m, alabels[r])
        /\ AnyEntryMatches(heap[alast[r]].BlockList.m, alabels[r])
        /\ aallow[r] = FALSE

\* Whether the regex of allow list entry l of policy c matches the value the
\* label set has for l.
AllowEntryMatches(c, labels, l) ==
    LET r == MatchString(c.AllowList.m[l], LabelValue(labels, l))
    IN  r.err = "nil" /\ r.matched

\* What C11 expects of IsAllow for a label set no block list regex matches.
AllowListVerdict(c, labels) ==
    \/ DOMAIN c.AllowList.m = {}
    \/ \E l \in DOMAIN c.AllowList.m : AllowEntryMatches(c, labels, l)

\* C11: allow-list default: when no block list regex matches, IsAllow()
\* returns true if the allow list is empty or absent, and otherwise returns true
\* exactly when at least one allow list entry matches (OR over the entries,
\* not AND); this holds of every finished call that read one policy and of the
\* active policy for every label set.
C11_AllowListDefault ==
    /\ \A r \in Readers :
          (/\ apc[r] = "done" /\ aop[r] = "IsAllow"
           /\ Cardinality(aseen[r]) = 1
           /\ ~ AnyEntryMatches(heap[alast[r]].BlockList.m, alabels[r]))
          => aallow[r] = AllowListVerdict(heap[alast[r]], alabels[r])
    /\ \A ls \in LabelSets :
          ~ AnyEntryMatches(heap[cfg].BlockList.m, ls)
          => IsAllowOn(heap[cfg], ls) = AllowListVerdict(heap[cfg], ls)

\* An IsAllow() call has returned true under one policy whose allow list has an
\* entry that matches the label set and an entry that does not, and whose
\* block list does not match.
C11_Witness ==
    \E r \in Readers :
        /\ apc[r] = "done" /\ aop[r] = "IsAllow"
        /\ Cardinality(aseen[r]) = 1
        /\ ~ AnyEntryMatches(heap[alast[r]].BlockList.m, alabels[r])
        /\ \E l1, l2 \in DOMAIN heap[alast[r]].AllowList.m :
              /\ AllowEntryMatches(heap[alast[r]], alabels[r], l1)
              /\ ~ AllowEntryMatches(heap[alast[r]], alabels[r], l2)
        /\ aallow[r] = TRUE

\* Whether filter case f applies to the label set: its key label is present and
\* its regex matches that label's value.
CaseMatches(f, labels) ==
    /\ f.Key \in DOMAIN labels
    /\ LET r == MatchString(f.Value, labels[f.Key])
       IN  r.err = "nil" /\ r.matched

\* What C12 expects of GetFilterOption under policy c.
FilterVerdict(c, labels) ==
    LET M == {i \in 1..Len(c.FilterOptions) : CaseMatches(c.FilterOptions[i], labels)}
    IN  IF M = {} THEN c.DefaultFilterOption
        ELSE c.FilterOptions[CHOOSE i \in M : \A j \in M : i <= j]

\* C12: filter-case ordering: GetFilterOption() returns the first filter case,
\* in configured order, whose key label is present and whose regex matches the
\* label's value; a case whose key label is absent never matches; when no case
\* matches the default filter case is returned. This holds of every finished
\* call that read one policy and of the active policy for every label set.
C12_FirstFilterCaseWins ==
    /\ \A r \in Readers :
          (apc[r] = "done" /\ aop[r] = "GetFilterOption" /\ Cardinality(aseen[r]) = 1)
          => aret[r] = FilterVerdict(heap[alast[r]], alabels[r])
    /\ \A ls \in LabelSets :
          GetFilterOptionOn(heap[cfg], ls) = FilterVerdict(heap[cfg], ls)

\* A GetFilterOption() call has returned the first of two filter cases that
\* both match its label set.
C12_Witness ==
    \E r \in Readers :
        /\ apc[r] = "done" /\ aop[r] = "GetFilterOption"
        /\ Cardinality(aseen[r]) = 1
        /\ Len(heap[alast[r]].FilterOptions) >= 2
        /\ CaseMatches(heap[alast[r]].FilterOptions[1], alabels[r])
        /\ CaseMatches(heap[alast[r]].FilterOptions[2], alabels[r])
        /\ heap[alast[r]].FilterOptions[1] # heap[alast[r]].FilterOptions[2]
        /\ aret[r] = heap[alast[r]].FilterOptions[1]

C14_FirstCallEmpty ==
    \A c \in Callers :
        (spc[c] = "result" /\ sfirst[c])
        => SearchResult(sarg[c].Path) = [matches |-> <<>>, err |-> "nil"]

\* Whether candidate m passes the exclusion globs and the suffix filter of task
\* t: no exclusion glob matches its full path and, when suffixes are
\* configured, it ends with one of them.
PassesFilters(m, t) ==
    /\ \A i \in 1..Len(t.ExcludePath) :
          ~ (PathMatch(t.ExcludePath[i], m).err = "nil"
             /\ PathMatch(t.ExcludePath[i], m).matched)
    /\ \/ Len(t.SuffixFilter) = 0
       \/ \E i \in 1..Len(t.SuffixFilter) : HasSuffix(m, t.SuffixFilter[i])

\* C15: exclusion/suffix composition: the list the worker's filter stages
\* produce is exactly the expanded candidates, in expansion order, that match
\* no exclusion glob and, when the suffix list is non-empty, end with a
\* configured suffix (all non-excluded candidates when it is empty), of which
\* the staleness stage then keeps those it finds fresh.
C15_ExclusionSuffixComposition ==
    [][(wpc = "filter" /\ wpc' = "store")
        => wmr'.matches =
             SelectSeq(wmr.matches,
                 LAMBDA m : /\ PassesFilters(m, wtask)
                            /\ m \in DOMAIN modTime
                            /\ Fresh(modTime[m], StalePeriod, now))]_vars

\* The example of the claim: candidates a/x.log, a/skip.log and a/y.txt (and
\* a stale a/o.log), exclusion a/skip.log, suffix .log: a/x.log is stored.
C15_Witness ==
    /\ wpc = "delete"
    /\ wtask.ExcludePath = <<FileSkip>>
    /\ wtask.SuffixFilter = <<SuffixLog>>
    /\ Glob(wtask.Path, modTime).matches = <<FileOld, FileSkip, FileX, FileY>>
    /\ wtask.Path \in DOMAIN result
    /\ result[wtask.Path].matches = <<FileX>>

\* C16: staleness pruning: of the candidates that pass the exclusion and
\* suffix stages, the worker drops exactly those whose modification time is
\* older than the 30-minute window at evaluation time (one exactly 30 minutes
\* old is kept) and those that cannot be stat'd.
C16_StalenessPruning ==
    [][(wpc = "filter" /\ wpc' = "store")
        => \A i \in 1..Len(wmr.matches) :
             LET m == wmr.matches[i]
             IN  PassesFilters(m, wtask)
                 => ((\E j \in 1..Len(wmr'.matches) : wmr'.matches[j] = m)
                     <=> (m \in DOMAIN modTime /\ now - modTime[m] <= StalePeriod))]_vars

\* Index in the endpoint list of endpoint e.
IndexOf(e) ==
    CHOOSE i \in 0..(accessEndpointList.len - 1) : accessEndpointList.data[i + 1] = e

\* C17: sequential pick step: on a non-empty list of length k a Pick() with
\* nothing interleaved takes the cursor from c to c + 1 (the increment), then
\* to (c + 1) mod k (the store), and returns the endpoint at the index the
\* cursor then holds; hence each pick returns the endpoint that follows, in
\* list order and cyclically, the one returned before, and any k consecutive
\* picks return every endpoint once.
C17_SequentialPick ==
    /\ [][/\ (ppc[SeqPicker] = "add" /\ ppc'[SeqPicker] = "mod") => idx' = idx + 1
          /\ (ppc[SeqPicker] = "mod" /\ ppc'[SeqPicker] = "store") => idx' = idx
          /\ (ppc[SeqPicker] = "store" /\ ppc'[SeqPicker] = "index")
               => idx' = idx % accessEndpointList.len
          /\ (ppc[SeqPicker] = "index" /\ ppc'[SeqPicker] = "idle")
               => /\ idx' = idx
                  /\ idx < accessEndpointList.len
                  /\ picked'.eps = Append(picked.eps, accessEndpointList.data[idx + 1])]_vars
    /\ [](accessEndpointList.len > 0 =>
            LET k == accessEndpointList.len
                N == Len(picked.eps)
            IN  /\ \A i \in 1..(N - 1) :
                      IndexOf(picked.eps[i + 1]) = (IndexOf(picked.eps[i]) + 1) % k
                /\ \A i \in 1..(N - k + 1) :
                      {picked.eps[j] : j \in i..(i + k - 1)}
                          = {accessEndpointList.data[j] : j \in 1..k}
                /\ (ppc[SeqPicker] = "idle" /\ N >= 1)
                      => accessEndpointList.data[idx + 1] = picked.eps[N])

\* Four sequential picks on a list of three went once round the list and back
\* to its head, and the cursor is at index 0.
C17_Witness ==
    /\ accessEndpointList.data = <<EpA, EpB, EpC>>
    /\ picked.eps = <<EpA, EpB, EpC, EpA>>
    /\ ppc[SeqPicker] = "idle"
    /\ idx = 0

\* C18: refresh in-flight lifecycle: the worker has written a task's result
\* to the cache whenever it is about to clear, and when it clears, the
\* pattern's in-flight marker, and results are replaced, never deleted; a
\* Search() that then finds no marker for its pattern goes on to store the
\* marker and to hand the worker a task, which the worker computes afresh.
C18_InFlightLifecycle ==
    /\ [](wpc = "delete" => (wtask.Path \in DOMAIN result /\ result[wtask.Path] = wmr))
    /\ [][(wpc = "delete" /\ wpc' = "recv")
            => (/\ wtask.Path \notin DOMAIN inProcess'
                /\ result' = result
                /\ result[wtask.Path] = wmr)]_vars
    /\ [][DOMAIN result \subseteq DOMAIN result']_vars
    /\ [][\A c \in Callers :
            /\ (spc[c] = "idle" /\ spc'[c] # "idle"
                    /\ sarg'[c].Path \notin DOMAIN inProcess)
                 => spc'[c] = "store"
            /\ (spc[c] = "store" /\ spc'[c] # "store")
                 => (spc'[c] = "send" /\ sarg[c].Path \in DOMAIN inProcess')
            /\ (spc[c] = "send" /\ spc'[c] # "send")
                 => (wtask' = sarg[c] /\ wpc' = "glob")]_vars
    /\ [][(wpc = "glob" /\ wpc' # "glob") => wmr' = Glob(wtask.Path, modTime)]_vars

\* A pattern was computed and its marker cleared; a Search() for it that was
\* not the first found no marker, has stored a new one and is at its send,
\* with the worker at its receive.
C18_Witness ==
    \E c \in Callers :
        /\ spc[c] = "send"
        /\ ~ sfirst[c]
        /\ wpc = "recv"
        /\ sarg[c].Path \in DOMAIN result
        /\ result[sarg[c].Path].matches # <<>>
        /\ sarg[c].Path \in DOMAIN inProcess
        /\ \A d \in Callers \ {c} : spc[d] = "idle"

\* C19: directory-service failover order: a refresh cycle starts at the first
\* configured URL and goes to the next one only when the current one fails; a
\* failing URL that has a successor does not end the cycle; the URL that
\* answers is the one whose response is decoded, and no URL is contacted after
\* it; the cycle is given up at the request stage only when the last URL has
\* failed too.
C19_FailoverOrder ==
    [][/\ (rpc = "idle" /\ rpc' # "idle") => (rpc' = "get" /\ rn' = 1)
       /\ (rpc = "get" /\ rpc' = "get") => rn' \in {rn, rn + 1}
       /\ (rpc = "get" /\ rn < NumUrls) => rpc' \in {"get", "decode"}
       /\ (rpc = "get" /\ rpc' = "decode") => (rn' = rn /\ rresp' \in Responses)
       /\ (rpc = "get" /\ rpc' = "idle")
            => (rn = NumUrls /\ syncLog' = "all endpoint unavailable")
       /\ rpc \notin {"idle", "get"} => (rn' \in {rn, 0} /\ rpc' # "get")]_vars

\* The first URL failed and the second answered: its response is being
\* decoded.
C19_Witness ==
    /\ rpc = "decode"
    /\ rn = 2
    /\ DecodeStage(rresp) = "ok"

\* Whether s has the form ip:port#weight|idc with ":" at i, "#" at j and "|" at
\* k, the fields being the text between the separators.
RecordForm(s, i, j, k) ==
    /\ i < j /\ j < k
    /\ s[i] = ":" /\ s[j] = "#" /\ s[k] = "|"
    /\ \A x \in 1..(i - 1) : s[x] # ":"
    /\ \A x \in (i + 1)..(j - 1) : s[x] # "#"
    /\ \A x \in (j + 1)..(k - 1) : s[x] # "|"

\* The endpoints C20 expects of the records recs under the locality filter
\* want ("" when none is configured).
RECURSIVE ExpectedEndpoints(_, _)
ExpectedEndpoints(recs, want) ==
    IF recs = <<>> THEN <<>>
    ELSE LET s == Head(recs)
             F == {t \in (1..Len(s)) \X (1..Len(s)) \X (1..Len(s)) :
                     /\ RecordForm(s, t[1], t[2], t[3])
                     /\ t[1] > 1 /\ t[2] > t[1] + 1 /\ t[3] < Len(s)
                     /\ (want # <<>> => SubSeq(s, t[3] + 1, Len(s)) = want)}
         IN  (IF F = {} THEN <<>>
              ELSE LET t == CHOOSE u \in F : TRUE
                   IN  <<SubSeq(s, 1, t[1] - 1) \o <<":">> \o SubSeq(s, t[1] + 1, t[2] - 1)>>)
                 \o ExpectedEndpoints(Tail(recs), want)

\* C20: endpoint record filtering: the list a refresh builds from a decoded
\* response is exactly, in response order, the ip:port of every record of the
\* form ip:port#weight|idc with non-empty ip, port and idc whose idc equals
\* the locality filter when one is configured; and the refresh leaves the
\* endpoint list equal to that list, nothing of the previous one surviving.
C20_RecordFiltering ==
    [][/\ (rpc = "decode" /\ rpc' = "assign")
            => rlist' = ExpectedEndpoints(Split(rresp.servers, ";"), idc)
       /\ (rpc # "unlock" /\ rpc' = "unlock")
            => accessEndpointList' = [data |-> rlist, len |-> Len(rlist)]
       /\ (rpc = "unlock" /\ rpc' = "idle")
            => accessEndpointList' = [data |-> rlist, len |-> Len(rlist)]]_vars

\* A refresh under the locality filter D has replaced the list by the two D
\* records of a three-record response.
C20_Witness ==
    /\ rpc = "idle"
    /\ syncLog = "result"
    /\ idc = IdcD
    /\ accessEndpointList = [data |-> <<EpA, EpC>>, len |-> 2]

\* Whether the regex of entry l of an allow_list/block_list map matches the
\* empty string.
EntryMatchesEmpty(list, l) ==
    LET r == MatchString(list[l], <<>>)
    IN  r.err = "nil" /\ r.matched

\* Whether the regex of entry l matches the value the label set holds for l.
EntryMatchesPresent(list, labels, l) ==
    /\ l \in DOMAIN labels
    /\ LET r == MatchString(list[l], labels[l])
       IN  r.err = "nil" /\ r.matched

\* C21: missing label in IsAllow: an allow list or block list entry whose
\* label the label set lacks is matched against the empty string: a block list
\* entry that matches the empty string refuses the label set, and an allow
\* list entry that matches the empty string admits it when no block list entry
\* matches; IsAllow's answer is the one obtained by reading every absent
\* label as "".
C21_MissingLabelEmptyString ==
    \A r \in Readers :
        (apc[r] = "done" /\ aop[r] = "IsAllow")
        => LET c  == heap[alast[r]]
               ls == alabels[r]
               al == c.AllowList.m
               bl == c.BlockList.m
               Hit(list, l) == IF l \in DOMAIN ls THEN EntryMatchesPresent(list, ls, l)
                                                 ELSE EntryMatchesEmpty(list, l)
               blocked == \E l \in DOMAIN bl : Hit(bl, l)
           IN  /\ (\E l \in DOMAIN bl \ DOMAIN ls : EntryMatchesEmpty(bl, l))
                    => aallow[r] = FALSE
               /\ ((\E l \in DOMAIN al \ DOMAIN ls : EntryMatchesEmpty(al, l)) /\ ~ blocked)
                    => aallow[r] = TRUE
               /\ aallow[r] = (/\ DOMAIN al = {} \/ \E l \in DOMAIN al : Hit(al, l)
                               /\ ~ blocked)

\* An IsAllow() call has admitted a label set that no allow list entry matches
\* on a label it holds: the entry that admits it is one whose label it lacks.
C21_Witness ==
    \E r \in Readers :
        /\ apc[r] = "done" /\ aop[r] = "IsAllow"
        /\ aallow[r] = TRUE
        /\ DOMAIN heap[alast[r]].AllowList.m # {}
        /\ \A l \in DOMAIN heap[alast[r]].AllowList.m :
              ~ EntryMatchesPresent(heap[alast[r]].AllowList.m, alabels[r], l)
        /\ \E l \in DOMAIN heap[alast[r]].AllowList.m \ DOMAIN alabels[r] :
              EntryMatchesEmpty(heap[alast[r]].AllowList.m, l)

\* The address of the ACLConfig{} the constructor allocates (line 47).
EmptyPolicyAddr == 1

\* C22: synchronous startup load: NewACLManager finishes one load of the
\* policy file before it returns and before the reload loop runs, so when the
\* file is readable and well-formed at construction the manager is handed out
\* with the file's policy active; the constructor's empty policy, once
\* replaced, is never active again, and a call reads it only while it is
\* active: hence no IsAllow() or GetFilterOption() call, the first included,
\* is decided against the empty policy after such a construction.
C22_SynchronousStartupLoad ==
    /\ (aclFile.read /\ aclFile.json)
          => (/\ reloads = 0
              /\ cfg # EmptyPolicyAddr
              /\ heap[cfg] = Unmarshal(aclFile.doc)
              /\ \A r \in Readers : aseen[r] = {})
    /\ [][cfg # EmptyPolicyAddr => cfg' # EmptyPolicyAddr]_vars
    /\ [][\A r \in Readers :
            (EmptyPolicyAddr \in aseen'[r] /\ EmptyPolicyAddr \notin aseen[r])
            => cfg = EmptyPolicyAddr]_vars

\* Before any tick of the reload loop, a call has returned that read the
\* policy the constructor loaded from the file, and nothing else.
C22_Witness ==
    \E r \in Readers :
        /\ reloads = 0
        /\ apc[r] = "done"
        /\ aseen[r] = {2}
        /\ Len(heap) = 2
        /\ heap[2] = Unmarshal(DocWeb)
        /\ aclFile = AclFile(TRUE, TRUE, DocWeb)

\* C23: discovery progress: under fair scheduling, with every scan
\* terminating, every Search() call returns (no caller stays away from idle
\* for ever, nor at the send of line 51), the worker always comes back to its
\* receive, and on the way there takes the task it holds through glob, filter,
\* store and delete, so every task handed over is executed; no pattern keeps
\* its in-flight marker for ever. Callers and worker do not deadlock on the
\* task queue.
C23_DiscoveryProgress ==
    /\ \A c \in Callers : []<>(spc[c] = "idle")
    /\ \A c \in Callers : []<>(spc[c] # "send")
    /\ []<>(wpc = "recv")
    /\ \A p \in Patterns : []<>(p \notin DOMAIN inProcess)
    /\ [][wpc # "recv" => wpc' \in {wpc, CASE wpc = "glob" -> "filter"
                                          [] wpc = "filter" -> "store"
                                          [] wpc = "store" -> "delete"
                                          [] wpc = "delete" -> "recv"}]_vars

\* Every caller is blocked at the send of line 51 while the worker is busy
\* with a task.
C23_Witness ==
    /\ \A c \in Callers : spc[c] = "send"
    /\ wpc = "filter"

\* C24: result keyed by pattern only: the worker computes a task with the
\* exclusion and suffix parameters of the call that sent it, and stores the
\* outcome under the task's pattern alone; a call that finds the pattern
\* marked sends nothing and changes neither marker nor cache, and every call
\* returns the entry of its pattern whatever its own parameters are.
C24_ResultKeyedByPattern ==
    /\ [](wpc \in {"store", "delete"}
            => \A i \in 1..Len(wmr.matches) : PassesFilters(wmr.matches[i], wtask))
    /\ [](DOMAIN result \subseteq Patterns)
    /\ [][\A c \in Callers :
            (spc[c] = "send" /\ spc'[c] # "send") => wtask' = sarg[c]]_vars
    /\ [][(wpc = "store" /\ wpc' # "store")
            => (/\ result'[wtask.Path] = wmr
                /\ \A p \in DOMAIN result \ {wtask.Path} : result'[p] = result[p])]_vars
    /\ [][\A c \in Callers :
            (spc[c] = "idle" /\ spc'[c] = "result")
            => (/\ sarg'[c].Path \in DOMAIN inProcess
                /\ UNCHANGED <<inProcess, result, wtask, wmr, wpc>>)]_vars
    /\ [][\A c \in Callers :
            (spc[c] = "result" /\ spc'[c] = "idle")
            => UNCHANGED <<inProcess, result, wtask, wmr, wpc>>]_vars

\* A call that excludes a/skip.log and wants .log files was coalesced with a
\* computation another call enqueued without filters for the same pattern, and
\* is about to return that computation's result, a/skip.log and a/y.txt
\* included.
C24_Witness ==
    \E c \in Callers :
        /\ spc[c] = "result"
        /\ sarg[c].ExcludePath = <<FileSkip>>
        /\ sarg[c].SuffixFilter = <<SuffixLog>>
        /\ ~ sfirst[c]
        /\ SearchResult(sarg[c].Path).matches = <<FileSkip, FileX, FileY>>
        /\ \E i \in 1..Len(SearchResult(sarg[c].Path).matches) :
              ~ PassesFilters(SearchResult(sarg[c].Path).matches[i], sarg[c])

\* Whether entry l of an allow_list/block_list map compiles and matches the
\* value the label set has for l ("" when it has none).
ValidEntryMatches(list, labels, l) ==
    /\ ~ RegexInvalid(list[l])
    /\ MatchString(list[l], IF l \in DOMAIN labels THEN labels[l] ELSE <<>>).matched

\* The filter cases of policy c whose regex compiles, in configured order.
ValidCases(c) == SelectSeq(c.FilterOptions, LAMBDA f : ~ RegexInvalid(f.Value))

\* C25: invalid policy regex: an entry whose regex does not compile matches
\* nothing and every call still returns an answer: IsAllow() answers as if
\* the invalid block list entries were not there and as if the invalid allow
\* list entries matched nothing (so an allow list of invalid entries only
\* refuses every label set), and GetFilterOption() answers as if the invalid
\* cases were not configured (a later case or the default is returned).
C25_InvalidRegexNoMatch ==
    \A r \in Readers :
        LET c  == heap[alast[r]]
            ls == alabels[r]
            al == c.AllowList.m
            bl == c.BlockList.m
        IN  /\ (apc[r] = "done" /\ aop[r] = "IsAllow")
                 => /\ aallow[r] =
                         (/\ DOMAIN al = {} \/ \E l \in DOMAIN al : ValidEntryMatches(al, ls, l)
                          /\ ~ \E l \in DOMAIN bl : ValidEntryMatches(bl, ls, l))
                    /\ (DOMAIN al # {} /\ \A l \in DOMAIN al : RegexInvalid(al[l]))
                         => aallow[r] = FALSE
                    /\ (DOMAIN al = {} /\ \A l \in DOMAIN bl : RegexInvalid(bl[l]))
                         => aallow[r] = TRUE
            /\ (apc[r] = "done" /\ aop[r] = "GetFilterOption")
                 => aret[r] = FilterVerdict([c EXCEPT !.FilterOptions = ValidCases(c)], ls)

\* A GetFilterOption() call has passed over a first case whose regex does not
\* compile, though the label set holds its key, and returned the second case.
C25_Witness ==
    \E r \in Readers :
        /\ apc[r] = "done" /\ aop[r] = "GetFilterOption"
        /\ Len(heap[alast[r]].FilterOptions) >= 2
        /\ RegexInvalid(heap[alast[r]].FilterOptions[1].Value)
        /\ heap[alast[r]].FilterOptions[1].Key \in DOMAIN alabels[r]
        /\ aret[r] = heap[alast[r]].FilterOptions[2]
        /\ aret[r] # heap[alast[r]].DefaultFilterOption

\* The errors injectConfigFunc returns after the backup was taken.
StageErrors ==
    {"write new config failed when openning file", "write file failed",
     "try load config failed"}

\* The goroutines inside the section mtx guards.
InSection ==
    {i \in Injectors : ipc[i] # "idle"} \cup (IF cpc # "idle" THEN {Reloader} ELSE {})

\* C26: config injection rollback: once the backup is taken, a failure to
\* create the file, to write the content or to load it as a config makes the
\* call run the rollback and return an error, and the config file then holds
\* its pre-injection text unless the restoring copy failed; a call that returns
\* no error leaves the injected content in the file; the removal of the backup
\* comes last on every such path, after any rollback, and the backup is gone
\* unless the removal failed; at most one injection or config reload is in
\* progress at a time.
C26_InjectionRollback ==
    /\ [](\A i \in Injectors :
            /\ ipc[i] \in {"create", "write", "load", "rollback"}
                 => (backup = File(ipre[i]) /\ LoadsAsConfig(ipre[i]))
            /\ ipc[i] = "rollback" => ierr[i] \in StageErrors
            /\ (ipc[i] \in {"remove", "unlock"} /\ ierr[i] = "nil")
                 => (configFile = icontent[i] /\ iwarn[i] \subseteq {"injectConfig: clean backup config"})
            /\ (ipc[i] \in {"remove", "unlock"} /\ ierr[i] \in StageErrors
                    /\ "injectConfig: rollback config error" \notin iwarn[i])
                 => configFile = ipre[i]
            /\ (ipc[i] = "unlock" /\ ierr[i] \in StageErrors \cup {"nil"}
                    /\ "injectConfig: clean backup config" \notin iwarn[i])
                 => backup = NoFile)
    /\ [][\A i \in Injectors :
            /\ (ipc[i] = "create" /\ ipc'[i] # "create") => ipc'[i] \in {"write", "rollback"}
            /\ (ipc[i] = "write" /\ ipc'[i] # "write") => ipc'[i] \in {"load", "rollback"}
            /\ (ipc[i] = "load" /\ ipc'[i] # "load")
                 => ipc'[i] = (IF LoadsAsConfig(configFile) THEN "remove" ELSE "rollback")
            /\ (ipc[i] = "rollback" /\ ipc'[i] # "rollback") => ipc'[i] = "remove"
            /\ (ipc[i] = "remove" /\ ipc'[i] # "remove") => ipc'[i] = "unlock"
            /\ (ipc[i] \in {"create", "write", "load", "rollback"}) => backup' = backup]_vars
    /\ [](Cardinality(InSection) <= 1 /\ (mtx.held <=> InSection = {mtx.by}))
    /\ [][configFile' # configFile => cpc = cpc' /\ cpc = "idle"]_vars

\* An injection of a content that does not load has restored the config file
\* from the backup and removed the backup, and is about to return its error.
C26_Witness ==
    \E i \in Injectors :
        /\ ipc[i] = "unlock"
        /\ icontent[i] = ConfBad
        /\ ierr[i] = "try load config failed"
        /\ iwarn[i] = {}
        /\ ipre[i] = ConfNew
        /\ configFile = ConfNew
        /\ backup = NoFile

====
